---- MODULE Spec2Model ----
(***************************************************************************)
(* A model of the gb23 emulator core (src/emu): the SM83 CPU step, the     *)
(* CPU-view bus, the PPU scanline state machine, the memory bank           *)
(* controllers and the Emu driver (tick / vblanked / reset / cpu_read).    *)
(*                                                                         *)
(* Program state is kept in records named after the Rust structs.  Every   *)
(* handler is a pure operator from a machine record to a machine record;   *)
(* the actions apply the operators to the variables.  A Rust panic         *)
(* (unreachable!, todo!, index out of bounds) is recorded in `panic` and   *)
(* ends the run.                                                           *)
(***************************************************************************)
EXTENDS Integers, Sequences, FiniteSets, TLC

VARIABLES
    cpu,        \* Cpu { pc, sp, af, bc, de, hl, irq, ime, stopped, halted }
    ppu,        \* Ppu { dot, dma_counter, lcdc, stat, ly, lyc, dma, objs, .. }
    mbc,        \* the cartridge controller: kind, bank registers
    emu,        \* the scalar fields of Emu: vblanked, iflags, bios, svbk, ...
    wram,       \* Emu.wram, the cells that differ from the constructor's 0xFF
    hram,       \* Emu.hram, the cells that differ from the constructor's 0xFF
    sram,       \* cartridge SRAM, the cells that differ from 0x00
    bios_data,  \* Emu.bios_data: the boot-ROM blob given to Emu::new
    cart,       \* the cartridge image given to the MBC constructor
    panic,      \* "none", or the kind of panic that ended the program
    hist        \* history: counters and last results, for stating properties

vars == <<cpu, ppu, mbc, emu, wram, hram, sram, bios_data, cart, panic, hist>>

-----------------------------------------------------------------------------
(* Bounds of the model (not program constants).                            *)

\* Emu::tick calls in one run of the driver specification
MaxTicks == 12
\* Emu::reset calls in one run of the driver specification
MaxResets == 1
\* cycles of one run of the frame specification (one wrap of LY and a bit)
MaxCycles == 70700
\* CpuView::write calls in one run of the bus specification
MaxBusOps == 2
\* Emu::tick calls and Emu::reset calls in one run of the reset specification
MaxResetTicks == 22
MaxResetCalls == 2
\* cycles of one run of the halt specification (up to the first VBlank and a
\* bit)
MaxHaltCycles == 65800
\* CpuView::write calls in one run of the bank-range specification
MaxBankOps == 3
\* sprites stored in OAM, and dots of one run, of the drawing specification
MaxSprites == 12
MaxDrawDots == 100
\* dots of one run of the LCD specification (the first scanline and the
\* head of the second)
MaxLcdDots == 460
\* CpuView::write calls in one run of the SRAM specification
MaxSramOps == 3
\* cycles of one run of the timer specification (two periods of the slowest
\* rate and a bit)
MaxTimerCycles == 2200
\* Cpu::tick calls in one run of the instruction specification
MaxSteps == 2
\* PUSH and POP instructions in one run of the stack specification
MaxStackOps == 3
\* CpuView::write calls in one run of the joypad specification
MaxJoypadOps == 3
\* CpuView::write calls in one run of the cartridge specification
MaxMbcOps == 3

-----------------------------------------------------------------------------
(* Program constants.                                                      *)

PortP1   == 65280
PortSB   == 65281
PortSC   == 65282
PortDIV  == 65284
PortTIMA == 65285
PortTMA  == 65286
PortTAC  == 65287
PortIF   == 65295
PortLCDC == 65344
PortSTAT == 65345
PortSCY  == 65346
PortSCX  == 65347
PortLY   == 65348
PortLYC  == 65349
PortDMA  == 65350
PortBGP  == 65351
PortOBP0 == 65352
PortOBP1 == 65353
PortWY   == 65354
PortWX   == 65355
PortVBK  == 65359
PortBIOS == 65360
PortHMDA1 == 65361
PortHMDA5 == 65365
PortBCPS == 65384
PortOCPD == 65387
PortSVBK == 65392
PortIE   == 65535

\* objs: [u8; 40 * 4]
OamLen == 160
\* dots per scanline: `if self.dot == 456`
DotsPerLine == 456
\* first VBlank scanline: `if self.ly < 144`
VBlankLine == 144
\* the scanline value at which LY wraps to 0: `if self.ly == 155`
LyWrap == 155

\* enum Flag
FlagZero == 128
FlagNegative == 64
FlagHalfCarry == 32
FlagCarry == 16

Byte == 0..255

-----------------------------------------------------------------------------
(* u8 bit operations.                                                      *)

RECURSIVE BitAnd(_, _)
BitAnd(a, b) ==
    IF a = 0 \/ b = 0 THEN 0
    ELSE (a % 2) * (b % 2) + 2 * BitAnd(a \div 2, b \div 2)

BitOr(a, b) == a + b - BitAnd(a, b)

BitXor(a, b) == a + b - 2 * BitAnd(a, b)

\* (v & mask) != 0
Test(v, mask) == BitAnd(v, mask) # 0

\* a sparse array: the function `m` holds the cells that differ from `dflt`
Cell(m, i, dflt) == IF i \in DOMAIN m THEN m[i] ELSE dflt

Store(m, i, v, dflt) ==
    IF v = dflt
    THEN [x \in (DOMAIN m) \ {i} |-> m[x]]
    ELSE [x \in (DOMAIN m) \cup {i} |-> IF x = i THEN v ELSE m[x]]

Empty == [x \in {} |-> 0]

-----------------------------------------------------------------------------
(* PPU                                                                     *)

\* Ppu::new.  vram holds the cells of chr_data, bg_data1 and bg_data2 (one
\* map over <<bank, addr - 0x8000>>) that differ from the fill: 0xFF in bank
\* 1, vram_fill in bank 0.
PpuNew ==
    [dot |-> 0, dma_counter |-> 0, lcdc |-> 0, stat |-> 0, scy |-> 0,
     scx |-> 0, ly |-> 0, lyc |-> 0, dma |-> 0, bgp |-> 0, obp0 |-> 0,
     obp1 |-> 0, wy |-> 0, wx |-> 0, vbk |-> 0, objs |-> Empty,
     vram |-> Empty, vram_fill |-> 255]

\* Ppu::reset: bank 0 of VRAM is refilled from libc::rand (`fill` stands for
\* the bytes drawn), every register is zeroed; objs and bank 1 are left alone
PpuReset(p, fill) ==
    [PpuNew EXCEPT !.objs = p.objs,
                   !.vram = [x \in {y \in DOMAIN p.vram : y[1] = 1} |-> p.vram[x]],
                   !.vram_fill = fill]

VramFill(p, bank) == IF bank = 0 THEN p.vram_fill ELSE 255

\* Ppu::read
PpuRead(p, addr) ==
    CASE addr \in 32768..40959 -> Cell(p.vram, <<p.vbk, addr - 32768>>, VramFill(p, p.vbk))
      [] addr \in 65024..65183 -> Cell(p.objs, addr - 65024, 255)
      [] addr = PortLCDC -> p.lcdc
      [] addr = PortSTAT -> p.stat
      [] addr = PortSCY  -> p.scy
      [] addr = PortSCX  -> p.scx
      [] addr = PortLY   -> p.ly
      [] addr = PortLYC  -> p.lyc
      [] addr = PortDMA  -> p.dma
      [] addr \in {PortBGP, PortOBP0, PortOBP1} -> 255
      [] addr = PortWY   -> p.wy
      [] addr = PortWX   -> p.wx
      [] addr = PortVBK  -> p.vbk
      [] addr \in PortHMDA1..PortHMDA5 -> 255
      [] addr \in PortBCPS..PortOCPD -> 0

\* a write to LY that stores the byte
WriteLyStored(p, value) == [p EXCEPT !.ly = value]

\* `Port::LY => {}`
WriteLy(p, value) == p

\* Ppu::write for the I/O ports and OAM
PpuWrite(p, addr, value) ==
    CASE addr \in 32768..40959 ->
            [p EXCEPT !.vram = Store(p.vram, <<p.vbk, addr - 32768>>, value,
                                     VramFill(p, p.vbk))]
      [] addr \in 65024..65183 -> [p EXCEPT !.objs = Store(p.objs, addr - 65024, value, 255)]
      [] addr = PortLCDC -> [p EXCEPT !.lcdc = value]
      [] addr = PortSTAT ->
            LET v == IF Test(value, 4) THEN BitXor(value, 4) ELSE value
            IN  [p EXCEPT !.stat = BitOr(BitAnd(v, 124), BitAnd(p.stat, 3))]
      [] addr = PortSCY  -> [p EXCEPT !.scy = value]
      [] addr = PortSCX  -> [p EXCEPT !.scx = value]
      [] addr = PortLY   -> WriteLy(p, value)
      [] addr = PortLYC  -> [p EXCEPT !.lyc = value]
      [] addr = PortDMA  -> [p EXCEPT !.dma = value, !.dma_counter = OamLen]
      [] addr = PortBGP  -> [p EXCEPT !.bgp = value]
      [] addr = PortOBP0 -> [p EXCEPT !.obp0 = value]
      [] addr = PortOBP1 -> [p EXCEPT !.obp1 = value]
      [] addr = PortWY   -> [p EXCEPT !.wy = value]
      [] addr = PortWX   -> [p EXCEPT !.wx = value]
      [] addr = PortVBK  -> [p EXCEPT !.vbk = value % 2]
      [] addr \in PortHMDA1..PortHMDA5 -> p
      [] addr \in PortBCPS..PortOCPD -> p

\* self.dot += 1; if self.dot == 456 { self.dot = 0; self.ly += 1; .. }
PpuAdvance(p, wrap) ==
    IF p.dot + 1 = DotsPerLine
    THEN [p EXCEPT !.dot = 0,
                   !.ly = IF wrap /\ p.ly + 1 = LyWrap THEN 0 ELSE p.ly + 1]
    ELSE [p EXCEPT !.dot = p.dot + 1]

PpuLycLatchStores(p, iflags) ==
    IF p.dot # 0 THEN [ppu |-> p, iflags |-> iflags]
    ELSE IF p.ly = p.lyc
         THEN LET s == BitOr(p.stat, 4)
              IN  [ppu |-> [p EXCEPT !.stat = s],
                   iflags |-> IF Test(s, 64) THEN 2 ELSE iflags]
         ELSE [ppu |-> [p EXCEPT !.stat = BitAnd(p.stat, 252)], iflags |-> iflags]

\* the dot-0 LYC comparison at the head of Ppu::tick
PpuLycLatch(p, iflags) ==
    IF p.dot # 0 THEN [ppu |-> p, iflags |-> iflags]
    ELSE IF p.ly = p.lyc
         THEN LET s == BitOr(p.stat, 4)
              IN  [ppu |-> [p EXCEPT !.stat = s],
                   iflags |-> IF Test(s, 64) THEN BitOr(iflags, 2) ELSE iflags]
         ELSE [ppu |-> [p EXCEPT !.stat = BitAnd(p.stat, 252)], iflags |-> iflags]

PpuOffKeepsLine(p) == [p EXCEPT !.stat = BitAnd(p.stat, 252)]

\* the LCD-off branch of Ppu::tick: `self.stat &= !0x03; self.ly = 0;
\* self.dot = 0;`
PpuOff(p) == [p EXCEPT !.stat = BitAnd(p.stat, 252), !.ly = 0, !.dot = 0]

\* Ppu::tick through a PpuView holding `iflags`.  The result carries the new
\* PPU, the new IF store, the returned VBlank signal, a panic, if any, and
\* `line`: the framebuffer line handed to draw_line (-1: none).
PpuTick(p0, iflags0) ==
    IF p0.dma_counter > 0 THEN
        LET c    == p0.dma_counter - 1
            addr == p0.dma * 256 + c
            p    == [p0 EXCEPT !.dma_counter = c]
        IN  IF addr = PortIF
            THEN [ppu |-> [p EXCEPT !.objs = Store(p.objs, c, iflags0, 255)],
                  iflags |-> iflags0, vblank |-> 0, panic |-> "none", line |-> -1]
            ELSE [ppu |-> p, iflags |-> iflags0, vblank |-> 0,
                  panic |-> "unreachable", line |-> -1]
    ELSE IF ~Test(p0.lcdc, 128) THEN
        [ppu |-> PpuOff(p0),
         iflags |-> iflags0, vblank |-> 0, panic |-> "none", line |-> -1]
    ELSE
        LET l  == PpuLycLatch(p0, iflags0)
            p  == l.ppu
            fl == l.iflags
        IN  IF p.ly < VBlankLine THEN
                IF p.dot = 0 THEN
                    LET s == BitOr(BitAnd(p.stat, 252), 2)
                    IN  [ppu |-> PpuAdvance([p EXCEPT !.stat = s], FALSE),
                         iflags |-> IF Test(s, 32) THEN BitOr(fl, 2) ELSE fl,
                         vblank |-> 0, panic |-> "none", line |-> -1]
                ELSE IF p.dot = 80 THEN
                    [ppu |-> PpuAdvance([p EXCEPT !.stat = BitOr(BitAnd(p.stat, 252), 3)], FALSE),
                     iflags |-> fl, vblank |-> 0, panic |-> "none", line |-> p.ly]
                ELSE IF p.dot = 370 THEN
                    LET s == BitAnd(p.stat, 252)
                    IN  [ppu |-> PpuAdvance([p EXCEPT !.stat = s], FALSE),
                         iflags |-> IF Test(s, 8) THEN BitOr(fl, 2) ELSE fl,
                         vblank |-> 0, panic |-> "none", line |-> -1]
                ELSE [ppu |-> PpuAdvance(p, FALSE), iflags |-> fl,
                      vblank |-> 0, panic |-> "none", line |-> -1]
            ELSE IF p.ly = VBlankLine /\ p.dot = 0 THEN
                LET s  == BitOr(BitAnd(p.stat, 252), 1)
                    f1 == BitOr(fl, 1)
                IN  [ppu |-> PpuAdvance([p EXCEPT !.stat = s], TRUE),
                     iflags |-> IF Test(s, 16) THEN BitOr(f1, 2) ELSE f1,
                     vblank |-> 1, panic |-> "none", line |-> -1]
            ELSE [ppu |-> PpuAdvance(p, TRUE), iflags |-> fl,
                  vblank |-> 0, panic |-> "none", line |-> -1]

\* bit `k` of a byte
BitAt(v, k) == (v \div (2 ^ k)) % 2

\* chr_data[0][off]
ChrByte(p, off) == Cell(p.vram, <<0, off>>, VramFill(p, 0))

\* `if (self.lcdc & 0x10) != 0 { chr_idx * 16 } else
\* { 0x1000.wrapping_add_signed(chr_idx as i8 * 16) }`
ChrDataOffset(p, chr_idx) ==
    IF Test(p.lcdc, 16) THEN chr_idx * 16
    ELSE 4096 + 16 * (IF chr_idx >= 128 THEN chr_idx - 256 ELSE chr_idx)

\* `(bithi << 1) | bitlo` of the 2bpp row at `off`, pixel `x` from the left
TileBits(p, off, x) ==
    2 * BitAt(ChrByte(p, off + 1), 7 - x) + BitAt(ChrByte(p, off), 7 - x)

\* the four shades, as the hex digits of the u32 the code stores
Shade(index) ==
    CASE index = 0 -> "FFFFFFFF"
      [] index = 1 -> "AAAAAAFF"
      [] index = 2 -> "555555FF"
      [] index = 3 -> "000000FF"

\* Ppu::bg_color
BgColor(p, bits) ==
    [color |-> Shade((p.bgp \div (4 ^ bits)) % 4),
     z |-> IF bits = 0 THEN 127 ELSE 128]

\* Ppu::obj_color
ObjColor(p, bits, attr) ==
    IF bits = 0 THEN [color |-> "00000000", z |-> 0]
    ELSE [color |-> Shade(((IF Test(attr, 16) THEN p.obp1 ELSE p.obp0)
                           \div (4 ^ bits)) % 4),
          z |-> IF Test(attr, 128) THEN 127 ELSE 255]

\* `if z >= self.z_buffer[ly][dot] { self.z_buffer[ly][dot] = z;
\* line[dot] = color; }`
Plot(px, c) == IF c.z >= px.z THEN c ELSE px

\* the tile index of a background or window map cell (bg_data2 if `second`)
MapByte(p, second, bank, idx) ==
    Cell(p.vram, <<bank, (IF second THEN 7168 ELSE 6144) + idx>>, VramFill(p, bank))

\* the background pass of Ppu::draw_line at `dot`
BgPixel(p, dot) ==
    LET bg_y == (p.ly + p.scy) % 256
        bg_x == (dot + p.scx) % 256
        chr_idx == MapByte(p, Test(p.lcdc, 8), 0, (bg_x \div 8) + (bg_y \div 8) * 32)
    IN  BgColor(p, TileBits(p, ChrDataOffset(p, chr_idx) + 2 * (bg_y % 8), bg_x % 8))

\* `if (self.lcdc & 0x04) != 0 { 16 } else { 8 }`
ObjHeight(p) == IF Test(p.lcdc, 4) THEN 16 ELSE 8

\* byte `k` of OAM entry `i`
Obj(p, i, k) == Cell(p.objs, 4 * i + k, 255)

\* the OAM filter of Ppu::draw_line: entry `i` is on line LY
Covers(p, i) ==
    ~((p.ly + 16 < Obj(p, i, 0)) \/ (p.ly + 16 - ObjHeight(p) >= Obj(p, i, 0)))

\* the body of the sprite loop of Ppu::draw_line for OAM entry `i`, at `dot`
ObjPixel(p, i, dot, px) ==
    IF ~Covers(p, i) THEN px
    ELSE
        LET y     == (Obj(p, i, 0) + 240) % 256
            attr  == Obj(p, i, 3)
            obj_y == ((p.ly + 256 - y) % 256) % ObjHeight(p)
            row   == IF Test(attr, 64) THEN 2 * (ObjHeight(p) - obj_y - 1)
                     ELSE 2 * obj_y
            x     == (Obj(p, i, 1) + 248) % 256
            k     == (dot + 256 - x) % 256
        IN  IF k >= 8 THEN px
            ELSE Plot(px, ObjColor(p, TileBits(p, Obj(p, i, 2) * 16 + row,
                                               IF Test(attr, 32) THEN 7 - k ELSE k),
                                   attr))

\* `for obj in self.objs.chunks(4) { .. }`
RECURSIVE ObjPass(_, _, _, _)
ObjPass(p, dot, px, i) ==
    IF i = OamLen \div 4 THEN px
    ELSE ObjPass(p, dot, ObjPixel(p, i, dot, px), i + 1)

\* the window pass of Ppu::draw_line at `dot` (for LY >= WY)
WinPixel(p, dot, px) ==
    IF p.wx >= 7 /\ dot < p.wx - 7 THEN px
    ELSE
        LET win_y == p.ly - p.wy
            win_x == IF p.wx < 7 THEN dot + (7 - p.wx) ELSE dot - (p.wx - 7)
            chr_idx == MapByte(p, Test(p.lcdc, 64), 0,
                               (win_x \div 8) + (win_y \div 8) * 32)
            c == BgColor(p, TileBits(p, ChrDataOffset(p, chr_idx) + 2 * (win_y % 8),
                                     win_x % 8))
        IN  Plot(px, [c EXCEPT !.z = @ + 1])

\* the sprite and window passes over the pixel the background pass left
ObjWinPixel(p, dot, bg) ==
    LET ob == IF Test(p.lcdc, 2) THEN ObjPass(p, dot, bg, 0) ELSE bg
    IN  IF Test(p.lcdc, 32) /\ p.ly >= p.wy THEN WinPixel(p, dot, ob) ELSE ob

\* Ppu::draw_line: the colours of line LY after the call (the z-buffer of the
\* line starts from 0)
DrawLine(p, line) ==
    [dot \in 0..159 |->
        ObjWinPixel(p, dot, Plot([color |-> line[dot], z |-> 0], BgPixel(p, dot))).color]

-----------------------------------------------------------------------------
(* Inputs: boot-ROM blobs and cartridge images.                            *)

\* A boot blob is `len` bytes long (0: absent, 256: present); its first
\* bytes are `prog`, the rest 0x00 (NOP).
Blob(len, prog) == [len |-> len, prog |-> prog]

BlobAt(b, i) == IF i < Len(b.prog) THEN b.prog[i + 1] ELSE 0

\* A cartridge: `banks` ROM banks of 16 KiB and `sram_banks` SRAM banks of
\* 8 KiB behind a controller `kind`; the ROM starts with `prog`, the rest of
\* it is 0x00 (fill "zero") or holds the number of its bank (fill "bank").
\* `overflow_checks` is the build: arithmetic overflow panics (a debug build)
\* or wraps (a release build).
Cart(kind, banks, sram_banks, fill, prog) ==
    [kind |-> kind, banks |-> banks, sram_banks |-> sram_banks,
     fill |-> fill, prog |-> prog, overflow_checks |-> TRUE]

\* the same cartridge under a build without overflow checks
Unchecked(c) == [c EXCEPT !.overflow_checks = FALSE]

RomAt(c, i) ==
    IF i < Len(c.prog) THEN c.prog[i + 1]
    ELSE IF c.fill = "bank" THEN i \div 16384 ELSE 0

\* LD A,0x42; JP 0x0000
ProgLoadJump == <<62, 66, 195, 0, 0>>
\* HALT as the first cartridge instruction
ProgHalt == <<118>>

\* NOPs only
BootNops == <<0, 0, 0, 0>>
\* LD A,0x91; LDH (0x40),A: the LCD is switched on, then NOPs
BootLcdOn == <<62, 145, 224, 64>>
\* LD A,0x1F; LDH (0xFF),A; LDH (0x0F),A; EI: IE = IF = 0x1F, IME = 1
BootIrq == <<62, 31, 224, 255, 224, 15, 251>>
\* LD A,0x01; LDH (0xFF),A; LDH (0x0F),A; HALT: IE = IF = 1, IME = 0
BootHaltPending == <<62, 1, 224, 255, 224, 15, 118>>
\* IE = 4, TIMA = 0xFF, TAC = 5 (timer on, 16-cycle period), HALT: the timer
\* interrupt becomes pending while the CPU is halted
BootHaltTimer == <<62, 4, 224, 255, 62, 255, 224, 5, 62, 5, 224, 7, 118>>
\* LCDC = 0x91, STAT = 0x08 (mode-0 interrupt), TIMA = 0xFF, TAC = 5, HALT:
\* the LCD and the timer run on while the CPU is halted
BootHaltLcd ==
    <<62, 145, 224, 64, 62, 8, 224, 65, 62, 255, 224, 5, 62, 5, 224, 7, 118>>
\* LD A,0x91; LDH (0x40),A; STOP; 0x00
BootStop == <<62, 145, 224, 64, 16, 0>>
\* LD A,0x01; LDH (0x50),A: the overlay is switched off, the cartridge runs on
BootOff == <<62, 1, 224, 80>>
\* EI; DI; LD A,0xC0; LD (0xC000),A; LD A,(0xC000); LDH A,(0x44); JR -2
BootMisc == <<251, 243, 62, 192, 234, 0, 192, 250, 0, 192, 240, 68, 24, 254>>

\* LD A,0xFF; LDH (0x41),A; LDH (0x40),A; LDH (0x0F),A: every STAT source is
\* enabled, the LCD is switched on, then 0xFF is written to IF
BootIfAll == <<62, 255, 224, 65, 224, 64, 224, 15>>

\* LD A,tma; LDH (TMA),A; LD A,tima; LDH (TIMA),A; LD A,tac; LDH (TAC),A;
\* JR -2
BootTimer(tac, tima, tma) ==
    <<62, tma, 224, 6, 62, tima, 224, 5, 62, tac, 224, 7, 24, 254>>

\* LD A,0x91; LDH (LCDC),A; then twenty CALLs, each to the address after it
\* (24 dots per instruction, so that LY leaves 0 within twenty-one ticks)
BootCalls ==
    <<62, 145, 224, 64>> \o
    [i \in 1..60 |-> CASE (i - 1) % 3 = 0 -> 205
                       [] (i - 1) % 3 = 1 -> 7 + 3 * ((i - 1) \div 3)
                       [] OTHER -> 0]

\* the boot blobs of the reset specification: the LCD running, an interrupt
\* dispatched, HALT with the timer on, STOP, and the overlay switched off
ResetBlobs ==
    {Blob(256, p) : p \in {BootCalls, BootIrq, BootHaltTimer, BootStop, BootOff}}

\* every TAC rate with the timer on, one rate with the timer off
TimerTacs == {4, 5, 6, 7, 1}

BootBlobs ==
    {Blob(0, <<>>)} \cup
    {Blob(256, b) : b \in {BootNops, BootLcdOn, BootIrq, BootHaltPending,
                           BootHaltTimer, BootStop, BootOff, BootMisc,
                           BootIfAll}}

Carts ==
    {Cart("mbc0", 2, 0, "zero", ProgLoadJump),
     Cart("mbc1", 4, 1, "bank", ProgHalt)}

-----------------------------------------------------------------------------
(* MBC                                                                     *)

\* Mbc1::new (Mbc0 and Null have no registers)
MbcNew == [rom_bank |-> 0, sram_bank |-> 0, bank_mode |-> 0]

\* Mbc1::reset
MbcReset(b) == [rom_bank |-> 0, sram_bank |-> 0, bank_mode |-> 0]

\* M::read for the cartridge `c`: a byte, or a panic
MbcRead(c, b, sr, addr) ==
    IF c.kind = "mbc1" THEN
        CASE addr \in 0..16383 ->
                IF c.banks = 0 THEN [value |-> 0, panic |-> "index"]
                ELSE [value |-> RomAt(c, addr), panic |-> "none"]
          [] addr \in 16384..32767 ->
                IF b.rom_bank >= c.banks THEN [value |-> 0, panic |-> "index"]
                ELSE [value |-> RomAt(c, b.rom_bank * 16384 + (addr - 16384)),
                      panic |-> "none"]
          [] addr \in 40960..49151 ->
                IF b.sram_bank >= c.sram_banks THEN [value |-> 0, panic |-> "index"]
                ELSE [value |-> Cell(sr, <<b.sram_bank, addr - 40960>>, 0),
                      panic |-> "none"]
          [] OTHER -> [value |-> 255, panic |-> "none"]
    ELSE
        CASE addr \in 0..32767 ->
                IF addr >= c.banks * 16384 THEN [value |-> 0, panic |-> "index"]
                ELSE [value |-> RomAt(c, addr), panic |-> "none"]
          [] OTHER -> [value |-> 255, panic |-> "none"]

\* the bank number written, left as it is
QuirkNone(lo) == lo

\* "quirk to translate bank 0 (and some others) one bank up"
Quirk(lo) ==
    CASE lo = 0  -> 1
      [] lo = 32 -> 33
      [] lo = 64 -> 65
      [] lo = 96 -> 97
      [] OTHER   -> lo

\* a mask that keeps every bit
BankMaskFull(n) == 255

\* `(self.rom.len() - 1) as u8`, `(self.sram.len() - 1) as u8` for n >= 1
BankMask(n) == (n - 1) % 256

\* M::write for the cartridge `c`: the new registers and SRAM, or a panic
MbcWrite(c, b, sr, addr, value) ==
    IF c.kind = "mbc1" THEN
        CASE addr \in 8192..16383 ->
                LET lo == Quirk(BitAnd(value, 21))
                    rb == BitOr(BitAnd(b.rom_bank, 224), lo)
                IN  [mbc |-> [b EXCEPT !.rom_bank = BitAnd(rb, BankMask(c.banks))],
                     sram |-> sr, panic |-> "none"]
          [] addr \in 16384..24575 ->
                IF b.bank_mode = 0 THEN
                    LET hi == (value % 4) * 32
                        rb == BitOr(b.rom_bank % 32, hi)
                    IN  [mbc |-> [b EXCEPT !.rom_bank = BitAnd(rb, BankMask(c.banks))],
                         sram |-> sr, panic |-> "none"]
                ELSE IF c.sram_banks = 0 /\ c.overflow_checks
                THEN [mbc |-> b, sram |-> sr, panic |-> "overflow"]
                ELSE IF c.sram_banks = 0
                THEN [mbc |-> [b EXCEPT !.sram_bank = value % 4], sram |-> sr,
                      panic |-> "none"]
                ELSE [mbc |-> [b EXCEPT !.sram_bank =
                                  BitAnd(value % 4, BankMask(c.sram_banks))],
                      sram |-> sr, panic |-> "none"]
          [] addr \in 24576..32767 ->
                [mbc |-> [b EXCEPT !.bank_mode = value % 2], sram |-> sr,
                 panic |-> "none"]
          [] addr \in 40960..49151 ->
                IF b.sram_bank >= c.sram_banks
                THEN [mbc |-> b, sram |-> sr, panic |-> "index"]
                ELSE [mbc |-> b,
                      sram |-> Store(sr, <<b.sram_bank, addr - 40960>>, value, 0),
                      panic |-> "none"]
          [] OTHER -> [mbc |-> b, sram |-> sr, panic |-> "none"]
    ELSE [mbc |-> b, sram |-> sr, panic |-> "none"]

-----------------------------------------------------------------------------
(* The machine record the handlers work on, and the CPU-view bus.          *)

\* Emu::new (scalar fields)
EmuNew ==
    [vblanked |-> FALSE, iflags |-> 0, bios |-> 0, svbk |-> 0, p1 |-> 0,
     sc |-> 0, div |-> 0, tima |-> 0, tma |-> 0, tac |-> 0, ie |-> 0,
     div_counter |-> 0, tima_counter |-> 0]

\* Cpu::new (Default)
CpuNew ==
    [pc |-> 0, sp |-> 0, a |-> 0, f |-> 0, b |-> 0, c |-> 0, d |-> 0, e |-> 0,
     h |-> 0, l |-> 0, irq |-> FALSE, ime |-> FALSE, stopped |-> FALSE,
     halted |-> FALSE]

Machine ==
    [cpu |-> cpu, ppu |-> ppu, mbc |-> mbc, emu |-> emu, wram |-> wram,
     hram |-> hram, sram |-> sram, panic |-> panic]

Ok(v) == [value |-> v, panic |-> "none"]

\* WramBank without the `if *self.svbk < 2` arm
WramBankUnguarded(svbk) == svbk

\* the WRAM bank behind 0xD000-0xDFFF: `if *self.svbk < 2` bank 1
WramBank(svbk) == IF svbk < 2 THEN 1 ELSE svbk

\* ShadowBank without the `if *self.svbk < 2` arm
ShadowBankUnguarded(svbk) == svbk

\* the WRAM bank behind the shadow area 0xF000-0xFDFF
ShadowBank(svbk) == IF svbk < 2 THEN 1 ELSE svbk

\* a CPU write to IF without the `& 0x1F`
IfStoreUnmasked(value) == value

\* the byte a CPU write puts into the IF store: `value & 0x1F`
IfStore(value) == value % 32

\* CpuView::read: a byte, or a panic
CpuViewRead(m, addr) ==
    CASE addr \in 0..255 /\ m.emu.bios = 0 ->
            IF addr >= bios_data.len THEN [value |-> 0, panic |-> "index"]
            ELSE Ok(BlobAt(bios_data, addr))
      [] addr \in 0..32767 /\ ~(addr \in 0..255 /\ m.emu.bios = 0) ->
            MbcRead(cart, m.mbc, m.sram, addr)
      [] addr \in 32768..40959 -> Ok(PpuRead(m.ppu, addr))
      [] addr \in 40960..49151 -> MbcRead(cart, m.mbc, m.sram, addr)
      [] addr \in 49152..53247 -> Ok(Cell(m.wram, <<0, addr - 49152>>, 255))
      [] addr \in 53248..57343 ->
            Ok(Cell(m.wram, <<WramBank(m.emu.svbk), addr - 53248>>, 255))
      [] addr \in 57344..61439 -> Ok(Cell(m.wram, <<0, addr - 57344>>, 255))
      [] addr \in 61440..65023 ->
            Ok(Cell(m.wram, <<ShadowBank(m.emu.svbk), addr - 61440>>, 255))
      [] addr \in 65024..65183 -> Ok(PpuRead(m.ppu, addr))
      [] addr \in 65184..65279 -> Ok(255)
      [] addr = PortP1   -> Ok(m.emu.p1)
      [] addr = PortSB   -> [value |-> 0, panic |-> "todo"]
      [] addr = PortSC   -> Ok(m.emu.sc)
      [] addr = 65283    -> Ok(255)
      [] addr = PortDIV  -> Ok(m.emu.div)
      [] addr = PortTIMA -> Ok(m.emu.tima)
      [] addr = PortTMA  -> Ok(m.emu.tma)
      [] addr = PortTAC  -> Ok(m.emu.tac)
      [] addr = PortIF   -> Ok(m.emu.iflags)
      [] addr \in PortLCDC..PortWX -> Ok(PpuRead(m.ppu, addr))
      [] addr = PortBIOS -> Ok(m.emu.bios)
      [] addr = PortVBK \/ addr \in PortHMDA1..PortHMDA5 -> Ok(PpuRead(m.ppu, addr))
      [] addr \in PortBCPS..PortOCPD -> Ok(PpuRead(m.ppu, addr))
      [] addr = PortSVBK -> Ok(m.emu.svbk)
      [] addr \in 65408..65534 -> Ok(Cell(m.hram, addr - 65408, 255))
      [] addr = PortIE   -> Ok(m.emu.ie)
      [] OTHER -> Ok(255)

\* CpuView::write: the machine after the write (m.panic set on a panic)
CpuViewWrite(m, addr, value) ==
    CASE addr \in 0..32767 \/ addr \in 40960..49151 ->
            LET r == MbcWrite(cart, m.mbc, m.sram, addr, value)
            IN  [m EXCEPT !.mbc = r.mbc, !.sram = r.sram, !.panic = r.panic]
      [] addr \in 32768..40959 -> [m EXCEPT !.ppu = PpuWrite(m.ppu, addr, value)]
      [] addr \in 49152..53247 ->
            [m EXCEPT !.wram = Store(m.wram, <<0, addr - 49152>>, value, 255)]
      [] addr \in 53248..57343 ->
            [m EXCEPT !.wram = Store(m.wram, <<WramBank(m.emu.svbk), addr - 53248>>,
                                     value, 255)]
      [] addr \in 57344..61439 ->
            [m EXCEPT !.wram = Store(m.wram, <<0, addr - 57344>>, value, 255)]
      [] addr \in 61440..65023 ->
            [m EXCEPT !.wram = Store(m.wram, <<ShadowBank(m.emu.svbk), addr - 61440>>,
                                     value, 255)]
      [] addr \in 65024..65183 -> [m EXCEPT !.ppu = PpuWrite(m.ppu, addr, value)]
      [] addr \in 65184..65279 -> m
      [] addr = PortP1   -> [m EXCEPT !.emu.p1 = value % 64]
      [] addr = PortSB   -> m
      [] addr = PortSC   -> [m EXCEPT !.emu.sc = value % 4]
      [] addr = 65283    -> m
      [] addr = PortDIV  -> [m EXCEPT !.emu.div = 0]
      [] addr = PortTIMA -> [m EXCEPT !.emu.tima = value]
      [] addr = PortTMA  -> [m EXCEPT !.emu.tma = value]
      [] addr = PortTAC  -> [m EXCEPT !.emu.tac = value % 8]
      [] addr = PortIF   -> [m EXCEPT !.emu.iflags = IfStore(value)]
      [] addr \in PortLCDC..PortWX -> [m EXCEPT !.ppu = PpuWrite(m.ppu, addr, value)]
      [] addr = PortBIOS -> [m EXCEPT !.emu.bios = value]
      [] addr = PortVBK \/ addr \in PortHMDA1..PortHMDA5 ->
            [m EXCEPT !.ppu = PpuWrite(m.ppu, addr, value)]
      [] addr \in PortBCPS..PortOCPD -> [m EXCEPT !.ppu = PpuWrite(m.ppu, addr, value)]
      [] addr = PortSVBK -> [m EXCEPT !.emu.svbk = value % 8]
      [] addr \in 65408..65534 ->
            [m EXCEPT !.hram = Store(m.hram, addr - 65408, value, 255)]
      [] addr = PortIE   -> [m EXCEPT !.emu.ie = value]
      [] OTHER -> m

-----------------------------------------------------------------------------
(* CPU.  A handler returns the machine after it and the cycles it returns. *)
(* After a panic the rest of the handler does not run.  A handler that     *)
(* uses a fetched byte is written as an operator on the result of the      *)
(* fetch.                                                                  *)

Done(m, cycles) == [m |-> m, cycles |-> cycles]

\* the result `r` of a bus read, recorded in the machine
Got(m, r) == [m |-> [m EXCEPT !.panic = r.panic], value |-> r.value]

\* bus.read(addr) inside a CPU handler
BusRead(m, addr) ==
    IF m.panic # "none" THEN [m |-> m, value |-> 0]
    ELSE Got(m, CpuViewRead(m, addr))

\* bus.write(addr, value) inside a CPU handler
BusWrite(m, addr, value) ==
    IF m.panic # "none" THEN m ELSE CpuViewWrite(m, addr, value)

\* `self.pc = self.pc.wrapping_add(1)` after the read `r` of Cpu::fetch
Bump(r) == [m |-> [r.m EXCEPT !.cpu.pc = (r.m.cpu.pc + 1) % 65536], value |-> r.value]

\* Cpu::fetch
Fetch(m) == Bump(BusRead(m, m.cpu.pc))

Wide(lo, hi) == [m |-> hi.m, value |-> lo + 256 * hi.value]

FetchHigh(lo) == Wide(lo.value, Fetch(lo.m))

\* Cpu::fetch_wide
FetchWide(m) == FetchHigh(Fetch(m))

\* u16 wrapping_sub(1)
Dec16(v) == (v + 65535) % 65536

\* Cpu::push_value
PushLow(m, value) ==
    BusWrite([m EXCEPT !.cpu.sp = Dec16(m.cpu.sp)], Dec16(m.cpu.sp), value % 256)

PushValue(m, value) ==
    PushLow(BusWrite([m EXCEPT !.cpu.sp = Dec16(m.cpu.sp)], Dec16(m.cpu.sp),
                     value \div 256),
            value)

SetPc(m, addr) == [m EXCEPT !.cpu.pc = addr]

\* Cpu::rst
Rst(m, addr) == SetPc(PushValue(m, m.cpu.pc), addr)

\* i8 as i16 added to a u16: wrapping_add_signed
AddSigned(pc, off) == (pc + (IF off >= 128 THEN off - 256 ELSE off) + 65536) % 65536

\* Cpu::stop: `self.stopped = true; self.fetch(bus); 4`
Stop(m) == Done(Fetch([m EXCEPT !.cpu.stopped = TRUE]).m, 4)

\* Cpu::jr after its fetch
Jr(r) == Done([r.m EXCEPT !.cpu.pc = AddSigned(r.m.cpu.pc, r.value)], 12)

\* Cpu::load_immediate(A) after its fetch
LoadImmediateA(r) == Done([r.m EXCEPT !.cpu.a = r.value], 8)

\* Cpu::halt
Halt(m) == Done([m EXCEPT !.cpu.halted = TRUE], 4)

\* Cpu::jmp after its fetch
Jmp(r) == Done([r.m EXCEPT !.cpu.pc = r.value], 16)

\* Cpu::store_high_indirect after its fetch
StoreHighIndirect(r) == Done(BusWrite(r.m, 65280 + r.value, r.m.cpu.a), 12)

\* Cpu::store_indirect after its fetch
StoreIndirect(r) == Done(BusWrite(r.m, r.value, r.m.cpu.a), 16)

\* set_register(A, value) with the value `v` read from the bus
LoadA(v, cycles) == Done([v.m EXCEPT !.cpu.a = v.value], cycles)

\* Cpu::load_high_indirect after its fetch
LoadHighIndirect(r) == LoadA(BusRead(r.m, 65280 + r.value), 12)

\* Cpu::load_indirect after its fetch
LoadIndirect(r) == LoadA(BusRead(r.m, r.value), 16)

\* Cpu::di
Di(m) == Done([m EXCEPT !.cpu.ime = FALSE], 4)

\* Cpu::ei
Ei(m) == Done([m EXCEPT !.cpu.ime = TRUE], 4)

\* Cpu::set_flag
SetFlag(f, flag, value) ==
    IF value THEN BitOr(f, flag) ELSE BitAnd(f, 255 - flag)

\* the four set_flag calls of an arithmetic handler
SetFlags(f, zero, negative, half, carry) ==
    SetFlag(SetFlag(SetFlag(SetFlag(f, FlagZero, zero), FlagNegative, negative),
                    FlagHalfCarry, half),
            FlagCarry, carry)

\* a half carry taken from the operands alone
HalfCarryOfOperands(a, value, result) == Test(BitXor(a, value), 16)

\* `((a ^ value ^ result) & 0x10) != 0`
HalfCarryOf(a, value, result) == Test(BitXor(BitXor(a, value), result), 16)

\* Cpu::add_value: `a.carrying_add(value, carry)`
AddValue(c, value, carry) ==
    LET sum    == c.a + value + (IF carry THEN 1 ELSE 0)
        result == sum % 256
    IN  [c EXCEPT !.a = result,
                  !.f = SetFlags(c.f, result = 0, FALSE,
                                 HalfCarryOf(c.a, value, result), sum > 255)]

\* Cpu::sub_value: `a.borrowing_sub(value, carry)`
SubValue(c, value, carry) ==
    LET diff   == c.a - value - (IF carry THEN 1 ELSE 0)
        result == (diff + 512) % 256
    IN  [c EXCEPT !.a = result,
                  !.f = SetFlags(c.f, result = 0, TRUE,
                                 HalfCarryOf(c.a, value, result), diff < 0)]

\* Cpu::compare_value: `a.overflowing_sub(value)`, A is not stored
CompareValue(c, value) ==
    LET diff   == c.a - value
        result == (diff + 256) % 256
    IN  [c EXCEPT !.f = SetFlags(c.f, result = 0, TRUE,
                                 HalfCarryOf(c.a, value, result), diff < 0)]

\* Cpu::add(Register::B), Cpu::sub(Register::B), Cpu::compare(Register::B)
AddB(c) == AddValue(c, c.b, FALSE)
SubB(c) == SubValue(c, c.b, FALSE)
CompareB(c) == CompareValue(c, c.b)

\* the high adjustment of Cpu::daa taken on the carry flag alone
HighAdjustOnCarry(value, carry) == carry

\* `(value > 0x99) || self.flag(Flag::Carry)`
HighAdjust(value, carry) == value > 153 \/ carry

\* `((value & 0x0F) > 0x09) || self.flag(Flag::HalfCarry)`
LowAdjust(value, half) == (value % 16) > 9 \/ half

\* Cpu::daa
Daa(c) ==
    LET value  == c.a
        half   == Test(c.f, FlagHalfCarry)
        carry  == Test(c.f, FlagCarry)
        result ==
            IF Test(c.f, FlagNegative)
            THEN (value + (IF half THEN 250 ELSE 0) + (IF carry THEN 160 ELSE 0)) % 256
            ELSE (value + (IF LowAdjust(value, half) THEN 6 ELSE 0)
                        + (IF HighAdjust(value, carry) THEN 96 ELSE 0)) % 256
        set    == ~Test(c.f, FlagNegative) /\ HighAdjust(value, carry)
        f1     == IF set THEN SetFlag(c.f, FlagCarry, TRUE) ELSE c.f
    IN  [c EXCEPT !.a = result,
                  !.f = SetFlag(SetFlag(f1, FlagZero, result = 0), FlagHalfCarry, FALSE)]

\* Cpu::wide_register for AF and BC
WideRegister(c, reg) ==
    IF reg = "AF" THEN c.a * 256 + c.f ELSE c.b * 256 + c.c

\* set_wide_register(AF, value) without the `& 0xFFF0`
SetWideAFUnmasked(c, value) == [c EXCEPT !.a = value \div 256, !.f = value % 256]

\* set_wide_register(AF, value): `self.af = (value & 0xFFF0).to_le_bytes()`
SetWideAF(c, value) ==
    [c EXCEPT !.a = BitAnd(value, 65520) \div 256, !.f = BitAnd(value, 65520) % 256]

\* Cpu::set_wide_register for AF and BC
SetWideRegister(c, reg, value) ==
    IF reg = "AF" THEN SetWideAF(c, value)
    ELSE [c EXCEPT !.b = value \div 256, !.c = value % 256]

\* `self.sp = self.sp.wrapping_add(1)` after the read `r` of Cpu::pop_value
IncSp(r) == [m |-> [r.m EXCEPT !.cpu.sp = (r.m.cpu.sp + 1) % 65536], value |-> r.value]

PopByte(m) == IncSp(BusRead(m, m.cpu.sp))

PopHigh(lo) == Wide(lo.value, PopByte(lo.m))

\* Cpu::pop_value
PopValue(m) == PopHigh(PopByte(m))

\* Cpu::pop after its pop_value
Pop(r, reg) == Done([r.m EXCEPT !.cpu = SetWideRegister(r.m.cpu, reg, r.value)], 12)

\* Cpu::push
Push(m, reg) == Done(PushValue(m, WideRegister(m.cpu, reg)), 16)

\* the `match condition` of the conditional handlers
Met(f, condition) ==
    CASE condition = "Zero"     -> Test(f, FlagZero)
      [] condition = "NotZero"  -> ~Test(f, FlagZero)
      [] condition = "Carry"    -> Test(f, FlagCarry)
      [] condition = "NotCarry" -> ~Test(f, FlagCarry)

\* the not-taken branch of Cpu::jr_condition without its fetch
JrSkipNoFetch(m) == Done(m, 8)

\* the not-taken branch of Cpu::jr_condition: `self.fetch(bus); 8`
JrSkip(m) == Done(Fetch(m).m, 8)

\* Cpu::jr_condition
JrCondition(m, condition) ==
    IF Met(m.cpu.f, condition) THEN Jr(Fetch(m)) ELSE JrSkip(m)

\* Cpu::call after its fetch_wide: push PC, `self.pc = addr; 24`
Call(r) == Done(SetPc(PushValue(r.m, r.m.cpu.pc), r.value), 24)

\* the not-taken branch of Cpu::call_condition: `self.fetch_wide(bus); 12`
CallSkip(m) == Done(FetchWide(m).m, 12)

\* Cpu::call_condition
CallCondition(m, condition) ==
    IF Met(m.cpu.f, condition) THEN Call(FetchWide(m)) ELSE CallSkip(m)

\* Cpu::ret with the bytes of the return address swapped
RetBigEndian(r) == Done(SetPc(r.m, (r.value % 256) * 256 + (r.value \div 256)), 16)

\* Cpu::ret after its pop_value
Ret(r) == Done(SetPc(r.m, r.value), 16)

\* self.wide_register(WideRegister::HL)
Hl(c) == c.h * 256 + c.l

\* Cpu::bit_value
BitValue(c, bit, value) ==
    [c EXCEPT !.f = SetFlag(SetFlag(SetFlag(c.f, FlagNegative, FALSE),
                                    FlagHalfCarry, TRUE),
                            FlagZero, ~Test(value, 2 ^ bit))]

\* Cpu::bit(bit, Register::B)
BitB(m, bit) == Done([m EXCEPT !.cpu = BitValue(m.cpu, bit, m.cpu.b)], 8)

\* Cpu::bit_hl_indirect after its bus read
BitRead(r, bit) == Done([r.m EXCEPT !.cpu = BitValue(r.m.cpu, bit, r.value)], 16)

BitHlIndirect(m, bit) == BitRead(BusRead(m, Hl(m.cpu)), bit)

\* Cpu::reset_bit_value, Cpu::set_bit_value
ResetBitValue(bit, value) == BitAnd(value, 255 - 2 ^ bit)
SetBitValue(bit, value) == BitOr(value, 2 ^ bit)

\* Cpu::reset_bit(bit, Register::B), Cpu::set_bit(bit, Register::B)
ResetBitB(m, bit) == Done([m EXCEPT !.cpu.b = ResetBitValue(bit, m.cpu.b)], 8)
SetBitB(m, bit) == Done([m EXCEPT !.cpu.b = SetBitValue(bit, m.cpu.b)], 8)

\* Cpu::reset_bit_hl_indirect and Cpu::set_bit_hl_indirect after the bus read
ResetBitWrite(r, bit) ==
    Done(BusWrite(r.m, Hl(r.m.cpu), ResetBitValue(bit, r.value)), 16)
SetBitWrite(r, bit) ==
    Done(BusWrite(r.m, Hl(r.m.cpu), SetBitValue(bit, r.value)), 16)

ResetBitHlIndirect(m, bit) == ResetBitWrite(BusRead(m, Hl(m.cpu)), bit)
SetBitHlIndirect(m, bit) == SetBitWrite(BusRead(m, Hl(m.cpu)), bit)

\* Cpu::cb after its fetch: the CB opcodes of the programs the model runs
Cb(op) ==
    IF op.m.panic # "none" THEN Done(op.m, 0)
    ELSE CASE op.value = 64  -> BitB(op.m, 0)
           [] op.value = 70  -> BitHlIndirect(op.m, 0)
           [] op.value = 126 -> BitHlIndirect(op.m, 7)
           [] op.value = 128 -> ResetBitB(op.m, 0)
           [] op.value = 134 -> ResetBitHlIndirect(op.m, 0)
           [] op.value = 192 -> SetBitB(op.m, 0)
           [] op.value = 198 -> SetBitHlIndirect(op.m, 0)
           [] OTHER -> Done([op.m EXCEPT !.panic = "opcode outside the model"], 0)

\* an illegal opcode that locks the CPU up
IllegalStops(m) == Done([m EXCEPT !.cpu.stopped = TRUE], 4)

\* the arms `0xD3 => 4` .. `0xFD => 4`
Illegal(m) == Done(m, 4)

\* the opcodes of the programs the model runs (the `match opcode` of Cpu::tick)
Execute(m, opcode) ==
    CASE opcode = 0   -> Done(m, 4)
      [] opcode = 16  -> Stop(m)
      [] opcode = 24  -> Jr(Fetch(m))
      [] opcode = 32  -> JrCondition(m, "NotZero")
      [] opcode = 40  -> JrCondition(m, "Zero")
      [] opcode = 48  -> JrCondition(m, "NotCarry")
      [] opcode = 56  -> JrCondition(m, "Carry")
      [] opcode = 62  -> LoadImmediateA(Fetch(m))
      [] opcode = 118 -> Halt(m)
      [] opcode = 195 -> Jmp(FetchWide(m))
      [] opcode = 196 -> CallCondition(m, "NotZero")
      [] opcode = 201 -> Ret(PopValue(m))
      [] opcode = 203 -> Cb(Fetch(m))
      [] opcode = 204 -> CallCondition(m, "Zero")
      [] opcode = 205 -> Call(FetchWide(m))
      [] opcode = 212 -> CallCondition(m, "NotCarry")
      [] opcode = 220 -> CallCondition(m, "Carry")
      [] opcode \in {211, 219, 221, 227, 228, 235, 236, 237, 244, 252, 253} -> Illegal(m)
      [] opcode = 224 -> StoreHighIndirect(Fetch(m))
      [] opcode = 234 -> StoreIndirect(FetchWide(m))
      [] opcode = 240 -> LoadHighIndirect(Fetch(m))
      [] opcode = 243 -> Di(m)
      [] opcode = 250 -> LoadIndirect(FetchWide(m))
      [] opcode = 251 -> Ei(m)
      [] OTHER -> Done([m EXCEPT !.panic = "opcode outside the model"], 0)

\* `let opcode = self.fetch(bus); match opcode { .. }`
Decode(op) ==
    IF op.m.panic # "none" THEN Done(op.m, 0) ELSE Execute(op.m, op.value)

\* `let imasked = bus.read(Port::IE) & iflags`
Pending(m) == BitAnd(CpuViewRead(m, PortIE).value, CpuViewRead(m, PortIF).value)

\* the interrupt dispatch of Cpu::tick for `imasked != 0`
DispatchOn(m, iflags, imasked) ==
    IF Test(imasked, 1) THEN BusWrite(Rst(m, 64), PortIF, BitXor(iflags, 1))
    ELSE IF Test(imasked, 2) THEN BusWrite(Rst(m, 72), PortIF, BitXor(iflags, 2))
    ELSE IF Test(imasked, 4) THEN BusWrite(Rst(m, 80), PortIF, BitXor(iflags, 4))
    ELSE IF Test(imasked, 8) THEN BusWrite(Rst(m, 88), PortIF, BitXor(iflags, 8))
    ELSE IF Test(imasked, 16) THEN BusWrite(Rst(m, 96), PortIF, BitXor(iflags, 16))
    ELSE m

ClearIme(m) == [m EXCEPT !.cpu.ime = FALSE]

Dispatch(m) ==
    Done(ClearIme(DispatchOn(m, CpuViewRead(m, PortIF).value, Pending(m))), 20)

\* the guard of the interrupt dispatch: `if self.irq && self.ime`
DispatchEnabled(c) == c.irq /\ c.ime

\* a halted step that takes no time
HaltedStepFrozen(m) == Done(m, 0)

\* the halted early return of Cpu::tick: `if self.halted { return 4; }`
HaltedStep(m) == Done(m, 4)

\* <Cpu as BusDevice>::tick
CpuTick(m) ==
    IF m.cpu.halted THEN HaltedStep(m)
    ELSE IF DispatchEnabled(m.cpu) /\ Pending(m) # 0 THEN Dispatch(m)
    ELSE Decode(Fetch(m))

\* a reset that leaves the halt and stop state alone
CpuResetKeepsHalt(c) == [c EXCEPT !.pc = 0, !.irq = FALSE, !.ime = FALSE]

\* <Cpu as BusDevice>::reset
CpuReset(c) ==
    [c EXCEPT !.pc = 0, !.irq = FALSE, !.ime = FALSE, !.stopped = FALSE,
              !.halted = FALSE]

-----------------------------------------------------------------------------
(* The driver: Emu::tick, Emu::vblanked, Emu::reset, Emu::cpu_read.        *)

AddVblank(rest, n) == [rest EXCEPT !.vblank = rest.vblank + n]

\* `for _ in 0..cycles { vblank += ppu.tick(&mut ppu_view); }`
RECURSIVE PpuRun(_, _, _)
RECURSIVE PpuRunOn(_, _)
PpuRun(p, iflags, n) ==
    IF n = 0 THEN [ppu |-> p, iflags |-> iflags, vblank |-> 0, panic |-> "none"]
    ELSE PpuRunOn(PpuTick(p, iflags), n - 1)

PpuRunOn(r, n) ==
    IF r.panic # "none" THEN r
    ELSE AddVblank(PpuRun(r.ppu, r.iflags, n), r.vblank)

\* the DIV prescaler period: `if self.div_counter >= 1024`
DivPeriod == 1024

\* the four frequencies taken in ascending order
TimaPeriodAscending(tac) ==
    CASE tac % 4 = 0 -> 4194304 \div 4096
      [] tac % 4 = 1 -> 4194304 \div 16384
      [] tac % 4 = 2 -> 4194304 \div 65536
      [] tac % 4 = 3 -> 4194304 \div 262144

\* `let period = 4194304 / freq`
TimaPeriod(tac) ==
    CASE tac % 4 = 0 -> 4194304 \div 4096
      [] tac % 4 = 1 -> 4194304 \div 262144
      [] tac % 4 = 2 -> 4194304 \div 65536
      [] tac % 4 = 3 -> 4194304 \div 16384

\* `while self.tima_counter >= period { .. }`
RECURSIVE TimaRun(_, _)
TimaRun(e, period) ==
    IF e.tima_counter < period THEN e
    ELSE TimaRun([e EXCEPT !.tima_counter = e.tima_counter - period,
                           !.tima = IF e.tima = 255 THEN e.tma ELSE e.tima + 1,
                           !.iflags = IF e.tima = 255 THEN BitOr(e.iflags, 4)
                                      ELSE e.iflags],
                 period)

\* the DIV section of Emu::tick
DivRun(e, cycles) ==
    IF e.div_counter + cycles >= DivPeriod
    THEN [e EXCEPT !.div_counter = e.div_counter + cycles - DivPeriod,
                   !.div = (e.div + 1) % 256]
    ELSE [e EXCEPT !.div_counter = e.div_counter + cycles]

\* the TIMA section of Emu::tick
TimaSection(e, cycles) ==
    IF Test(e.tac, 4)
    THEN TimaRun([e EXCEPT !.tima_counter = e.tima_counter + cycles],
                 TimaPeriod(e.tac))
    ELSE e

\* the timer section of Emu::tick
Timers(e, cycles) == TimaSection(DivRun(e, cycles), cycles)

\* Emu::tick after the PPU loop returned `r`
AfterPpu(c, r) ==
    IF r.panic # "none"
    THEN Done([c.m EXCEPT !.ppu = r.ppu, !.panic = r.panic], 0)
    ELSE Done([c.m EXCEPT
                 !.ppu = r.ppu,
                 !.emu = Timers([c.m.emu EXCEPT
                                   !.iflags = r.iflags,
                                   !.vblanked = IF r.vblank # 0 THEN TRUE ELSE @],
                                c.cycles)],
              c.cycles)

\* Emu::tick after the CPU step returned `c`
AfterCpu(c) ==
    IF c.m.panic # "none" THEN Done(c.m, 0)
    ELSE AfterPpu(c, PpuRun(c.m.ppu, c.m.emu.iflags, c.cycles))

\* Emu::tick
EmuTick(m) == AfterCpu(CpuTick(m))

\* Emu::reset; `fill` stands for the bytes libc::rand puts into VRAM
EmuReset(m, fill) ==
    [m EXCEPT !.cpu = CpuReset(m.cpu),
              !.mbc = MbcReset(m.mbc),
              !.ppu = PpuReset(m.ppu, fill),
              !.emu = [m.emu EXCEPT !.vblanked = FALSE, !.iflags = 0, !.svbk = 0,
                                    !.p1 = 0, !.sc = 0, !.div = 0, !.tima = 0,
                                    !.tma = 0, !.tac = 0, !.ie = 0]]

-----------------------------------------------------------------------------
(* State machine.                                                          *)

\* the bytes libc::rand may put into VRAM at a reset (one value per reset)
RandFills == {0, 255}

\* addresses the host reads through Emu::cpu_read in the driver specification
HostReads == {0, 256, PortSB, PortLY}

\* the registers a PPU-level run writes through Ppu::write
PpuWrites == {<<PortLCDC, 145>>, <<PortDMA, 192>>, <<PortLY, 77>>}

\* MBC-1 cartridges of 2, 4 and 128 ROM banks (32 KiB, 64 KiB, 2 MiB); every
\* byte of a bank but the first of the image holds the number of the bank
MbcCarts ==
    {Cart("mbc1", 2, 1, "bank", ProgHalt),
     Cart("mbc1", 4, 1, "bank", ProgHalt),
     Cart("mbc1", 128, 4, "bank", ProgHalt)}

\* the writes and the read addresses of the cartridge specification
MbcWrites ==
    {<<8192, 0>>, <<8192, 170>>, <<8192, 32>>, <<8192, 5>>, <<8192, 2>>,
     <<16383, 31>>, <<16384, 1>>, <<24576, 1>>}
MbcReads == {0, 16383, 16384, 32767}

\* the cartridges of the bank-range specification: N ROM banks, M SRAM banks,
\* both powers of two
BankCarts ==
    {Cart("mbc1", n, m, "bank", ProgHalt) : n \in {2, 8, 128, 512}, m \in {1, 4}}

\* bytes stored to the four MBC-1 registers and into the SRAM window
BankWrites ==
    ({8192} \X {0, 31, 32, 96, 255}) \cup ({16384} \X {0, 1, 3, 255})
        \cup ({24576} \X {0, 1}) \cup {<<40960, 90>>}
BankReads == {0, 16383, 16384, 32767, 40960, 49151}

\* the cartridges of the SRAM specification: each controller with and without
\* SRAM, the one without under both builds
SramCarts ==
    {Cart("mbc0", 2, 1, "bank", ProgHalt),
     Cart("mbc0", 2, 0, "bank", ProgHalt),
     Cart("mbc1", 4, 4, "bank", ProgHalt),
     Cart("mbc1", 4, 0, "bank", ProgHalt),
     Unchecked(Cart("mbc1", 4, 0, "bank", ProgHalt))}

\* writes into the SRAM window, and the MBC-1 mode and SRAM-bank selects
SramWrites ==
    {<<40960, 90>>, <<49151, 165>>, <<24576, 1>>, <<16384, 1>>, <<16384, 3>>}
SramReads == {40960, 49151}

\* the opcodes of the instruction runs: JR cc, CALL, CALL cc and the eleven
\* opcodes without an instruction
JrOps == {32, 40, 48, 56}
CallOps == {196, 204, 212, 220}
IllegalOps == {211, 219, 221, 227, 228, 235, 236, 237, 244, 252, 253}
StepOps == JrOps \cup CallOps \cup IllegalOps \cup {205}

\* the operand bytes that follow the opcode: e8 = 0 / nn = 0x0000, and
\* e8 = +24 / nn = 0x0018 (as opcodes they are NOP and JR, so that a run can
\* go on after an opcode that takes no operand)
StepOperands == {<<0, 0>>, <<24, 0>>}

\* the registers an instruction run starts from: every Zero/Carry combination
\* of F, IME off and on, the stack in work RAM or the constructor's SP = 0
StepCpus ==
    {[CpuNew EXCEPT !.a = 18, !.b = 52, !.f = f, !.sp = sp, !.ime = ime] :
        f \in {0, 16, 128, 240}, sp \in {0, 53248}, ime \in BOOLEAN}

\* the CB-prefixed opcodes run: BIT 0,B; BIT 0,(HL); BIT 7,(HL); RES 0,B;
\* RES 0,(HL); SET 0,B; SET 0,(HL)
CbOps == {64, 70, 126, 128, 134, 192, 198}

\* the registers a CB run starts from: HL in work RAM or in high RAM
CbCpus ==
    {[CpuNew EXCEPT !.b = b, !.f = f, !.h = hl \div 256, !.l = hl % 256] :
        b \in {0, 1, 255}, f \in {0, 240}, hl \in {49152, 65408}}

\* the writes that store OAM entries 0..n-1: Y = 16 (lines 0..7, or 0..15 for
\* tall sprites), X = 8 + 8i (columns 8i..8i+7), tile 1, no attribute
SpriteWrites(n) ==
    [a \in 1..(4 * n) |->
        <<65024 + (a - 1),
          CASE (a - 1) % 4 = 0 -> 16
            [] (a - 1) % 4 = 1 -> 8 + 8 * ((a - 1) \div 4)
            [] (a - 1) % 4 = 2 -> 1
            [] (a - 1) % 4 = 3 -> 0>>]

\* Ppu::write of each byte of `ws` in turn
RECURSIVE StoreAll(_, _)
StoreAll(p, ws) ==
    IF ws = <<>> THEN p
    ELSE StoreAll(PpuWrite(p, Head(ws)[1], Head(ws)[2]), Tail(ws))

\* the PPU after the CPU stored `n` sprites, OBP0 = 0xC0 (colour 3 is black)
\* and LCDC
Staged(n, lcdc) ==
    StoreAll(PpuNew, SpriteWrites(n) \o <<<<PortOBP0, 192>>, <<PortLCDC, lcdc>>>>)

\* CALL t at 0x0000 and RET at t
CallRetBlob(t) ==
    Blob(256, [i \in 1..(t + 1) |->
                  IF i = 1 THEN 205 ELSE IF i = 2 THEN t
                  ELSE IF i = t + 1 THEN 201 ELSE 0])

CallTargets == {3, 16, 100}

\* the registers a CALL/RET run starts from: the stack in work RAM, in high
\* RAM, across 0x0000 (SP = 0, 1) and across the cartridge area (SP = 0xC001)
CallCpus ==
    {[CpuNew EXCEPT !.a = a, !.f = f, !.sp = sp] :
        a \in {0, 18}, f \in {0, 240}, sp \in {53248, 65534, 49408, 0, 1, 49153}}

\* the bytes that encode a decimal value 0..99, and the decoding
Bcd == {n \in Byte : (n % 16) <= 9 /\ (n \div 16) <= 9}
Dec(n) == 10 * (n \div 16) + (n % 16)
Enc(d) == 16 * (d \div 10) + (d % 10)

\* the operands of the decimal runs: every BCD byte and two that are not
DaaBytes == Bcd \cup {10, 255}

\* the F values an arithmetic run starts from: no flag set, every flag set
AluFlags == {0, 240}

\* the register values a stack run starts from: SP is the constructor's 0
\* (the stack wraps to 0xFFFF), in banked WRAM or at the top of HRAM
StackCpus ==
    {[CpuNew EXCEPT !.a = a, !.f = f, !.b = 171, !.c = c, !.sp = sp] :
        a \in {18, 255}, f \in {0, 176}, c \in {205, 15, 240}, sp \in {0, 53248, 65534}}
StackRegs == {"AF", "BC"}

\* the bytes the joypad specification writes to P1
JoypadWrites == {<<PortP1, 16>>, <<PortP1, 32>>, <<PortP1, 48>>, <<PortP1, 255>>}

\* the writes and the read addresses of the bus specification
BusWrites ==
    {<<PortBIOS, 1>>, <<PortBIOS, 0>>, <<PortSVBK, 1>>, <<PortSVBK, 170>>,
     <<0, 1>>, <<49152, 0>>, <<53248, 170>>, <<56831, 1>>,
     <<57344, 1>>, <<61440, 170>>, <<65023, 0>>}
BusAddrs == {w[1] : w \in BusWrites}
BusReads ==
    BusAddrs \cup {255, 256, 56832, PortSB, PortSC, PortIF, 65024, 65184}

HistInit ==
    [ticks |-> 0, resets |-> 0, ops |-> 0, cycles |-> 0, lcd_dots |-> 0,
     since |-> -1, gap |-> -1, query |-> "none",
     read |-> [addr |-> -1, value |-> -1],
     wrote |-> [addr |-> -1, value |-> -1],
     prev |-> [addr |-> -1, value |-> -1], bios_off |-> FALSE,
     pressed |-> FALSE, timed |-> 0, high2 |-> 0, pre |-> [a |-> 0, f |-> 0, sp |-> 0], drew |-> -1, line |-> Empty,
     last |-> "init"]

\* the state after Emu::new(b, M::new(c)) with the CPU registers `c0`
Loaded(c0, b, c) ==
    /\ cpu = c0
    /\ ppu = PpuNew
    /\ mbc = MbcNew
    /\ emu = EmuNew
    /\ wram = Empty
    /\ hram = Empty
    /\ sram = Empty
    /\ bios_data = b
    /\ cart = c
    /\ panic = "none"
    /\ hist = HistInit

\* the state after Emu::new(b, M::new(c))
Constructed(b, c) == Loaded(CpuNew, b, c)

Apply(m) ==
    /\ cpu' = m.cpu
    /\ ppu' = m.ppu
    /\ mbc' = m.mbc
    /\ emu' = m.emu
    /\ wram' = m.wram
    /\ hram' = m.hram
    /\ sram' = m.sram
    /\ panic' = m.panic
    /\ UNCHANGED <<bios_data, cart>>

\* the host calls Emu::tick
Ticked(r) ==
    /\ Apply(r.m)
    /\ hist' = [hist EXCEPT
           !.ticks = @ + 1,
           !.cycles = @ + r.cycles,
           !.lcd_dots = IF Test(r.m.ppu.lcdc, 128) THEN @ + r.cycles ELSE 0,
           !.timed = IF Test(r.m.emu.tac, 4) THEN @ + r.cycles ELSE @,
           !.query = "none",
           !.bios_off = @ \/ r.m.emu.bios # 0,
           !.last = "tick"]

Tick ==
    /\ panic = "none"
    /\ Ticked(EmuTick(Machine))

\* the host calls Emu::vblanked
Vblanked ==
    /\ panic = "none"
    /\ emu' = [emu EXCEPT !.vblanked = FALSE]
    /\ hist' = [hist EXCEPT !.query = IF emu.vblanked THEN "true" ELSE "false",
                            !.last = "query"]
    /\ UNCHANGED <<cpu, ppu, mbc, wram, hram, sram, bios_data, cart, panic>>

\* the host calls Emu::reset
Resetting ==
    /\ panic = "none"
    /\ \E fill \in RandFills : Apply(EmuReset(Machine, fill))
    /\ hist' = [hist EXCEPT !.resets = @ + 1, !.lcd_dots = 0, !.query = "none",
                            !.last = "reset"]

Reset == hist.resets < MaxResets /\ Resetting

\* the host calls Emu::reset in the reset specification
ResetStep == hist.resets < MaxResetCalls /\ Resetting

\* the host calls Emu::cpu_read(addr), i.e. CpuView::read(addr)
HasRead(addr, r) ==
    /\ panic' = r.panic
    /\ hist' = [hist EXCEPT !.read = [addr |-> addr, value |-> r.value],
                            !.last = "read"]

CpuRead(addrs) ==
    /\ panic = "none"
    /\ \E addr \in addrs : HasRead(addr, CpuViewRead(Machine, addr))
    /\ UNCHANGED <<cpu, ppu, mbc, emu, wram, hram, sram, bios_data, cart>>

\* CpuView::write(addr, value)
Written(m, addr, value) ==
    /\ Apply(m)
    /\ hist' = [hist EXCEPT !.ops = @ + 1,
                            !.bios_off = @ \/ m.emu.bios # 0,
                            !.read = [addr |-> -1, value |-> -1],
                            !.wrote = [addr |-> addr, value |-> value],
                            !.pressed = FALSE,
                            !.last = "write"]

BusWriteStep ==
    /\ panic = "none"
    /\ hist.ops < MaxBusOps
    /\ \E w \in BusWrites :
          Written(CpuViewWrite(Machine, w[1], w[2]), w[1], w[2])

\* CpuView::write(addr, value), the write before it remembered
WrittenAfter(m, addr, value) ==
    /\ Apply(m)
    /\ hist' = [hist EXCEPT !.ops = @ + 1,
                            !.read = [addr |-> -1, value |-> -1],
                            !.wrote = [addr |-> addr, value |-> value],
                            !.prev = hist.wrote,
                            !.high2 = IF addr \in 16384..24575 THEN value % 4 ELSE @,
                            !.last = "write"]

\* CpuView::write to a cartridge address
MbcWriteStep ==
    /\ panic = "none"
    /\ hist.ops < MaxMbcOps
    /\ \E w \in MbcWrites :
          WrittenAfter(CpuViewWrite(Machine, w[1], w[2]), w[1], w[2])

\* one CpuView::write of the bank-range specification
BankWriteStep ==
    /\ panic = "none"
    /\ hist.ops < MaxBankOps
    /\ \E w \in BankWrites :
          WrittenAfter(CpuViewWrite(Machine, w[1], w[2]), w[1], w[2])

\* one CpuView::write of the SRAM specification
SramWriteStep ==
    /\ panic = "none"
    /\ hist.ops < MaxSramOps
    /\ \E w \in SramWrites :
          WrittenAfter(CpuViewWrite(Machine, w[1], w[2]), w[1], w[2])

\* The host presses the "A" button.  Emu::new takes no input device and no
\* method of Emu takes a button state: P1 is the byte the CPU wrote last, so
\* the press changes no field of the emulator.
PressA ==
    /\ panic = "none"
    /\ ~hist.pressed
    /\ hist' = [hist EXCEPT !.pressed = TRUE, !.last = "press"]
    /\ UNCHANGED <<cpu, ppu, mbc, emu, wram, hram, sram, bios_data, cart, panic>>

\* CpuView::write to P1
JoypadWriteStep ==
    /\ panic = "none"
    /\ hist.ops < MaxJoypadOps
    /\ \E w \in JoypadWrites :
          Written(CpuViewWrite(Machine, w[1], w[2]), w[1], w[2])

\* the registers before a CPU handler ran
Pre == [a |-> cpu.a, f |-> cpu.f, sp |-> cpu.sp]

\* one arithmetic handler on the registers as loaded
Computed(c, name) ==
    /\ cpu' = c
    /\ hist' = [hist EXCEPT !.pre = Pre, !.last = name]
    /\ UNCHANGED <<ppu, mbc, emu, wram, hram, sram, bios_data, cart, panic>>

AddStep == hist.last = "init" /\ Computed(AddB(cpu), "add")
SubStep == hist.last = "init" /\ Computed(SubB(cpu), "sub")
CompareStep == hist.last = "init" /\ Computed(CompareB(cpu), "cp")

\* DAA straight after an arithmetic handler; the operands stay recorded
DaaStep ==
    /\ hist.last \in {"add", "sub"}
    /\ cpu' = Daa(cpu)
    /\ hist' = [hist EXCEPT !.last = hist.last \o "_daa"]
    /\ UNCHANGED <<ppu, mbc, emu, wram, hram, sram, bios_data, cart, panic>>

\* one Cpu::tick on its own, its returned cycles added to the count
Stepped(r) ==
    /\ Apply(r.m)
    /\ hist' = [hist EXCEPT !.ops = @ + 1, !.cycles = @ + r.cycles, !.pre = Pre,
                            !.last = "step"]

CpuStep ==
    /\ panic = "none"
    /\ hist.ops < MaxSteps
    /\ Stepped(CpuTick(Machine))

\* one stack handler
Stacked(m, name) ==
    /\ Apply(m)
    /\ hist' = [hist EXCEPT !.ops = @ + 1, !.pre = Pre, !.last = name]

PushStep ==
    /\ panic = "none"
    /\ hist.ops < MaxStackOps
    /\ \E reg \in StackRegs : Stacked(Push(Machine, reg).m, "push_" \o reg)

PopStep ==
    /\ panic = "none"
    /\ hist.ops < MaxStackOps
    /\ \E reg \in StackRegs : Stacked(Pop(PopValue(Machine), reg).m, "pop_" \o reg)

\* an arithmetic handler between stack handlers
FlagStep ==
    /\ panic = "none"
    /\ hist.ops < MaxStackOps
    /\ \/ Stacked([Machine EXCEPT !.cpu = AddB(cpu)], "add")
       \/ Stacked([Machine EXCEPT !.cpu = SubB(cpu)], "sub")
       \/ Stacked([Machine EXCEPT !.cpu = CompareB(cpu)], "cp")

\* one Ppu::tick through a PpuView
PpuTicked(r, on) ==
    /\ ppu' = r.ppu
    /\ emu' = [emu EXCEPT !.iflags = r.iflags]
    /\ panic' = r.panic
    /\ hist' = [hist EXCEPT
           !.since = IF ~on THEN -1
                     ELSE IF r.vblank = 1 THEN 0
                     ELSE IF @ >= 0 THEN @ + 1 ELSE -1,
           !.gap = IF ~on THEN -1
                   ELSE IF r.vblank = 1
                        THEN (IF hist.since >= 0 THEN hist.since + 1 ELSE -1)
                   ELSE @,
           !.wrote = [addr |-> -1, value |-> -1],
           !.drew = r.line,
           !.last = IF r.vblank = 1 THEN "vblank" ELSE "ppu_tick"]

PpuTickStep ==
    /\ panic = "none"
    /\ PpuTicked(PpuTick(ppu, emu.iflags),
                 Test(ppu.lcdc, 128) /\ ppu.dma_counter = 0)
    /\ UNCHANGED <<cpu, mbc, wram, hram, sram, bios_data, cart>>

\* one Ppu::write to a PPU register
PpuWriteStep ==
    /\ panic = "none"
    /\ \E w \in PpuWrites :
          /\ ppu' = PpuWrite(ppu, w[1], w[2])
          /\ hist' = [hist EXCEPT !.wrote = [addr |-> w[1], value |-> w[2]],
                                  !.last = "ppu_write"]
    /\ UNCHANGED <<cpu, mbc, emu, wram, hram, sram, bios_data, cart, panic>>

\* CPU writes while the LCD runs: LCD on, LCD off, the LYC interrupt enable
\* of STAT, LYC, the timer bit of IF, an OAM DMA from 0xC000
LcdWrites ==
    {<<PortLCDC, 145>>, <<PortLCDC, 17>>, <<PortSTAT, 64>>, <<PortLYC, 1>>,
     <<PortIF, 4>>, <<PortDMA, 192>>}

\* one CpuView::write to a register the PPU reads
LcdWriteStep ==
    /\ panic = "none"
    /\ \E w \in LcdWrites :
          /\ Apply(CpuViewWrite(Machine, w[1], w[2]))
          /\ hist' = [hist EXCEPT !.wrote = [addr |-> w[1], value |-> w[2]],
                                  !.last = "ppu_write"]

\* the framebuffer line before the first draw: `let lcd = [[0; 160]; 144]`
BlankLine == [dot \in 0..159 |-> "00000000"]

\* one Ppu::tick through a PpuView, the line it draws kept
DrawTicked(r) ==
    /\ ppu' = r.ppu
    /\ emu' = [emu EXCEPT !.iflags = r.iflags]
    /\ panic' = r.panic
    /\ hist' = [hist EXCEPT
           !.drew = r.line,
           !.line = IF r.line >= 0
                    THEN DrawLine(ppu, IF @ = Empty THEN BlankLine ELSE @)
                    ELSE @,
           !.last = "ppu_tick"]

DrawTickStep ==
    /\ panic = "none"
    /\ ppu.ly * DotsPerLine + ppu.dot < MaxDrawDots
    /\ DrawTicked(PpuTick(ppu, emu.iflags))
    /\ UNCHANGED <<cpu, mbc, wram, hram, sram, bios_data, cart>>

\* The driver: any boot blob, any cartridge, a bounded number of host calls.
Init == \E b \in BootBlobs, c \in Carts : Constructed(b, c)

Next ==
    \/ (hist.ticks < MaxTicks /\ Tick)
    \/ (hist.ticks < MaxTicks /\ Vblanked)
    \/ Reset
    \/ (hist.ticks < MaxTicks /\ CpuRead(HostReads))

Spec == Init /\ [][Next]_vars

\* One frame of the driver: the boot blob switches the LCD on, then NOPs run.
InitFrame == Constructed(Blob(256, BootLcdOn), Cart("mbc0", 2, 0, "zero", ProgLoadJump))

NextFrame ==
    \/ (hist.cycles < MaxCycles /\ Tick)
    \/ (hist.cycles < MaxCycles /\ Vblanked)

SpecFrame == InitFrame /\ [][NextFrame]_vars

\* The PPU alone, dot by dot.
InitPpu == Constructed(Blob(256, BootNops), Cart("mbc0", 2, 0, "zero", ProgLoadJump))

NextPpu == PpuTickStep \/ PpuWriteStep

SpecPpu == InitPpu /\ [][NextPpu]_vars

\* The PPU over the first scanlines, the LCD switched on and off.
NextLcd ==
    \/ (ppu.ly * DotsPerLine + ppu.dot < MaxLcdDots /\ PpuTickStep)
    \/ LcdWriteStep

SpecLcd == InitPpu /\ [][NextLcd]_vars

\* The first scanline drawn over `n` sprites that all lie on it.
InitDraw ==
    \E n \in 0..MaxSprites, lcdc \in {147, 151} :
        /\ cpu = CpuNew
        /\ ppu = Staged(n, lcdc)
        /\ mbc = MbcNew
        /\ emu = EmuNew
        /\ wram = Empty /\ hram = Empty /\ sram = Empty
        /\ bios_data = Blob(256, BootNops)
        /\ cart = Cart("mbc0", 2, 0, "zero", ProgLoadJump)
        /\ panic = "none"
        /\ hist = HistInit

NextDraw == DrawTickStep

SpecDraw == InitDraw /\ [][NextDraw]_vars

\* The CPU-view bus alone: reads and writes in any order.
InitBus ==
    \E b \in {Blob(0, <<>>), Blob(256, BootNops)},
       c \in {Cart("mbc0", 2, 0, "zero", ProgLoadJump)} : Constructed(b, c)

NextBus == BusWriteStep \/ CpuRead(BusReads)

SpecBus == InitBus /\ [][NextBus]_vars

\* The joypad port: CPU writes and reads of P1, and the host's button.
NextJoypad == JoypadWriteStep \/ CpuRead({PortP1}) \/ PressA

SpecJoypad == InitBus /\ [][NextJoypad]_vars

\* The 8-bit arithmetic handlers: every A and B, one handler per run.
InitAlu ==
    \E a \in Byte, b \in Byte, f \in AluFlags :
        Loaded([CpuNew EXCEPT !.a = a, !.b = b, !.f = f], Blob(256, BootNops),
               Cart("mbc0", 2, 0, "zero", ProgLoadJump))

NextAlu == AddStep \/ SubStep \/ CompareStep

SpecAlu == InitAlu /\ [][NextAlu]_vars

\* The SRAM window of each controller, with and without SRAM.
InitSram == \E c \in SramCarts : Constructed(Blob(256, BootNops), c)

NextSram == SramWriteStep \/ CpuRead(SramReads)

SpecSram == InitSram /\ [][NextSram]_vars

\* MBC-1 over well-formed images: register writes, reads of ROM and SRAM.
InitBank == \E c \in BankCarts : Constructed(Blob(256, BootNops), c)

NextBank == BankWriteStep \/ CpuRead(BankReads)

SpecBank == InitBank /\ [][NextBank]_vars

\* Resets of the running machine: ticks and resets in any order.
InitReset ==
    \E b \in ResetBlobs : Constructed(b, Cart("mbc1", 4, 1, "bank", ProgHalt))

NextReset == (hist.ticks < MaxResetTicks /\ Tick) \/ ResetStep

SpecReset == InitReset /\ [][NextReset]_vars

\* The timer under the driver: the boot blob loads TMA, TIMA and TAC and spins.
InitTimer ==
    \E tac \in TimerTacs :
        Constructed(Blob(256, BootTimer(tac, 254, 250)),
                    Cart("mbc0", 2, 0, "zero", ProgLoadJump))

NextTimer == hist.cycles < MaxTimerCycles /\ Tick

SpecTimer == InitTimer /\ [][NextTimer]_vars

\* Single instructions: the boot ROM starts with one opcode and its operand.
InitStep ==
    \E c0 \in StepCpus, op \in StepOps, e \in StepOperands :
        Loaded(c0, Blob(256, <<op, e[1], e[2]>>),
               Cart("mbc0", 2, 0, "zero", ProgLoadJump))

NextStep == CpuStep

SpecStep == InitStep /\ [][NextStep]_vars

\* One CB-prefixed instruction at 0x0000, then the NOPs behind it.
InitCb ==
    \E c0 \in CbCpus, op \in CbOps :
        Loaded(c0, Blob(256, <<203, op>>),
               Cart("mbc0", 2, 0, "zero", ProgLoadJump))

NextCb == CpuStep

SpecCb == InitCb /\ [][NextCb]_vars

\* CALL nn, then RET.
InitCall ==
    \E c0 \in CallCpus, t \in CallTargets :
        Loaded(c0, CallRetBlob(t), Cart("mbc0", 2, 0, "zero", ProgLoadJump))

NextCall == CpuStep

SpecCall == InitCall /\ [][NextCall]_vars

\* The halted machine under the driver, up to the first VBlank.
InitHalt ==
    Constructed(Blob(256, BootHaltLcd), Cart("mbc0", 2, 0, "zero", ProgLoadJump))

NextHalt ==
    \/ (hist.cycles < MaxHaltCycles /\ Tick)
    \/ (hist.cycles < MaxHaltCycles /\ Vblanked)

SpecHalt == InitHalt /\ [][NextHalt]_vars

\* Decimal arithmetic: ADD or SUB of two bytes, then DAA.
InitDaa ==
    \E a \in DaaBytes, b \in DaaBytes, f \in AluFlags :
        Loaded([CpuNew EXCEPT !.a = a, !.b = b, !.f = f], Blob(256, BootNops),
               Cart("mbc0", 2, 0, "zero", ProgLoadJump))

NextDaa == AddStep \/ SubStep \/ DaaStep

SpecDaa == InitDaa /\ [][NextDaa]_vars

\* The stack handlers: PUSH and POP of AF and BC in any order.
InitStack ==
    \E c0 \in StackCpus :
        Loaded(c0, Blob(256, BootNops), Cart("mbc0", 2, 0, "zero", ProgLoadJump))

NextStack == PushStep \/ PopStep \/ FlagStep

SpecStack == InitStack /\ [][NextStack]_vars

\* The cartridge behind the CPU-view bus: MBC-1 register writes and ROM reads.
InitMbc == \E c \in MbcCarts : Constructed(Blob(256, BootNops), c)

NextMbc == MbcWriteStep \/ CpuRead(MbcReads)

SpecMbc == InitMbc /\ [][NextMbc]_vars

-----------------------------------------------------------------------------
(* Properties.                                                             *)

\* an Emu::tick step
TickStep == hist'.ticks = hist.ticks + 1

\* IE & IF, low five bits
PendingBits == BitAnd(BitAnd(emu.ie, emu.iflags), 31)

\* the vector of the lowest set bit of `bits`
VectorOf(bits) ==
    IF bits % 2 = 1 THEN 64
    ELSE IF bits % 4 = 2 THEN 72
    ELSE IF bits % 8 = 4 THEN 80
    ELSE IF bits % 16 = 8 THEN 88
    ELSE 96

\* C1: while the LCD stays on and no DMA runs, any two consecutive VBlank
\* signals of Ppu::tick are exactly 70224 dots apart.
C1_VBlankEvery70224 == hist.gap \in {-1, 70224}

\* C2: LY is in 0..153 in every reachable state (the increment from 153
\* wraps to 0).
C2_LyInRange == ppu.ly \in 0..153

\* C3: from LY=0, dot=0 with LCDC=0x91, after exactly 65664 cycles of ticking
\* LY is 144 and a vblanked() query made then returns true.
C3_VblankedAtEntry ==
    (hist.lcd_dots = 65664 /\ hist.last = "tick")
        => (ppu.ly = 144 /\ ppu.dot = 0 /\ emu.vblanked)

\* C4: a CPU step that starts with IME set and a pending enabled interrupt
\* dispatches: IME is cleared, PC is the vector of the lowest pending bit and
\* the step returns 20 cycles.
C4_Dispatch ==
    [][(TickStep /\ panic' = "none" /\ ~cpu.halted /\ cpu.ime /\ PendingBits # 0)
         => (/\ cpu'.pc = VectorOf(PendingBits)
             /\ ~cpu'.ime
             /\ hist'.cycles = hist.cycles + 20)]_vars

\* C5: a halted CPU leaves the Halted state at the step that finds a bit of
\* IE & IF set, whatever IME is.
C5_HaltReleased ==
    [][(TickStep /\ panic' = "none" /\ cpu.halted /\ PendingBits # 0)
         => ~cpu'.halted]_vars

\* C6: while the CPU is stopped, a tick fetches nothing (PC unchanged) and
\* does not advance the PPU dot counter or LY.
C6_StopHolds ==
    [][(TickStep /\ panic' = "none" /\ cpu.stopped)
         => (cpu'.pc = cpu.pc /\ ppu'.dot = ppu.dot /\ ppu'.ly = ppu.ly)]_vars

\* C7: once a nonzero value has been written to the BIOS port (boot blob
\* present), reads of 0x0000-0x00FF return the cartridge's bytes, whatever is
\* written later.
C7_OverlayStaysOff ==
    (hist.bios_off /\ bios_data.len = 256) =>
        \A a \in 0..255 : CpuViewRead(Machine, a) = MbcRead(cart, mbc, sram, a)

\* C8: with the boot ROM absent and the cartridge 3E 42 C3 00 00, ticking
\* from the constructed state never fails; after one tick A=0x42 and PC=2,
\* after two ticks PC=0 and A=0x42.
C8_AbsentBootRuns ==
    (bios_data.len = 0 /\ cart.prog = ProgLoadJump /\ hist.resets = 0
       /\ hist.ticks >= 1)
        => (/\ panic = "none"
            /\ cpu.a = 66
            /\ (hist.ticks = 1 => cpu.pc = 2)
            /\ (hist.ticks = 2 => cpu.pc = 0))

\* C9: with a well-formed construction (boot blob present) a CPU-view read of
\* any address returns a byte and a write is accepted: no bus access panics.
C9_BusTotal ==
    bios_data.len = 256
        => (/\ panic = "none"
            /\ (hist.last = "read" => hist.read.value \in Byte)
            /\ (hist.read.addr \in {PortSB, PortSC} => hist.read.value = 255))

\* the echo addresses the read half of C10 is evaluated at: both ends of the
\* two match arms and the addresses the bus specification writes
EchoProbe ==
    {57344, 57345, 59392, 61439, 61440, 61441, 63488, 65022, 65023}
        \cup (BusAddrs \cap 57344..65023)

\* every address behind the WRAM and echo windows that the model touches
WramProbe == EchoProbe \cup {a - 8192 : a \in EchoProbe} \cup {56832, 57343}

EchoReads ==
    \A a \in EchoProbe : CpuViewRead(Machine, a) = CpuViewRead(Machine, a - 8192)

\* the twin of a WRAM/echo address
Twin(a) == IF a >= 57344 THEN a - 8192 ELSE a + 8192

\* the last write went to the WRAM or echo window
WroteWindow ==
    /\ hist.last = "write"
    /\ hist.wrote.addr \in (49152..56831) \cup (57344..65023)

\* the byte last written is read back at its address and at the twin
WroteBack ==
    /\ CpuViewRead(Machine, hist.wrote.addr) = Ok(hist.wrote.value)
    /\ CpuViewRead(Machine, Twin(hist.wrote.addr)) = Ok(hist.wrote.value)

\* a write of v to an echo address a (or to a - 0x2000) is read back at both
\* addresses and changes no other byte of the WRAM and echo windows
EchoWrite ==
    WroteWindow'
        => (/\ WroteBack'
            /\ \A b \in WramProbe :
                  b \in {hist'.wrote.addr, Twin(hist'.wrote.addr)}
                      \/ CpuViewRead(Machine, b)' = CpuViewRead(Machine, b))

\* C10: for every echo address a and every value of SVBK, reading a equals
\* reading a - 0x2000, and a write to either is seen at both and nowhere else.
C10_EchoRam == EchoReads /\ [][EchoReads' /\ EchoWrite]_vars

\* C10 witness: 0xAA written through the echo address 0xF000 with SVBK = 2
\* has been read back at 0xD000.
C10_Witness ==
    /\ hist.wrote = [addr |-> 61440, value |-> 170]
    /\ hist.read = [addr |-> 53248, value |-> 170]
    /\ emu.svbk = 2

\* max(1, SVBK): the bank C11 puts behind 0xD000-0xDFFF
SelectedBank == IF emu.svbk = 0 THEN 1 ELSE emu.svbk

\* a write to SVBK keeps three bits and touches no WRAM byte
SvbkWritten ==
    (hist'.last = "write" /\ hist'.wrote.addr = PortSVBK)
        => (emu'.svbk = hist'.wrote.value % 8 /\ wram' = wram)

\* a write to 0xD000-0xDFFF changes one byte of the selected bank, a write
\* to 0xC000-0xCFFF one byte of bank 0, and nothing else
WramWritten ==
    /\ (hist'.last = "write" /\ hist'.wrote.addr \in 53248..57343)
          => wram' = Store(wram, <<SelectedBank, hist'.wrote.addr - 53248>>,
                           hist'.wrote.value, 255)
    /\ (hist'.last = "write" /\ hist'.wrote.addr \in 49152..53247)
          => wram' = Store(wram, <<0, hist'.wrote.addr - 49152>>,
                           hist'.wrote.value, 255)

\* a read of 0xD000-0xDFFF returns the byte of the selected bank, a read of
\* 0xC000-0xCFFF the byte of bank 0
WramRead ==
    /\ (hist'.last = "read" /\ hist'.read.addr \in 53248..57343)
          => hist'.read.value
                = Cell(wram, <<SelectedBank, hist'.read.addr - 53248>>, 255)
    /\ (hist'.last = "read" /\ hist'.read.addr \in 49152..53247)
          => hist'.read.value = Cell(wram, <<0, hist'.read.addr - 49152>>, 255)

\* C11: SVBK stores v & 7; 0xD000-0xDFFF addresses WRAM bank max(1, SVBK),
\* 0xC000-0xCFFF always bank 0; a write there changes exactly the addressed
\* byte of that bank, so bytes of other banks stay as they were.
C11_WramBanking == [][SvbkWritten /\ WramWritten /\ WramRead]_vars

\* C11 witness: SVBK was written 0xAA (stored as 2), then 0xAA was written to
\* 0xD000: bank 2 holds it and bank 1 still holds the constructor's 0xFF.
C11_Witness ==
    /\ emu.svbk = 2
    /\ hist.wrote = [addr |-> 53248, value |-> 170]
    /\ Cell(wram, <<2, 0>>, 255) = 170
    /\ Cell(wram, <<1, 0>>, 255) = 255

\* C12: in every reachable state the IF store holds only its low five bits,
\* whatever the CPU wrote to 0xFF0F and whatever the PPU and the timer raised.
C12_IfLowBits == emu.iflags \in 0..31

\* C12 witness: with the STAT sources enabled and the LCD on (the PPU has
\* raised the STAT bit), the CPU has written 0xFF to IF: the store holds 0x1F.
C12_Witness ==
    /\ bios_data.prog = BootIfAll
    /\ cpu.pc = 8
    /\ cpu.a = 255
    /\ Test(ppu.lcdc, 128)
    /\ emu.iflags = 31

\* C13: a CPU read of IF returns the stored low five bits with bits 5-7 set,
\* i.e. (stored IF) | 0xE0.
C13_IfReadsHighBits ==
    (hist.last = "read" /\ hist.read.addr = PortIF)
        => hist.read.value = BitOr(emu.iflags, 224)

\* C14: a write of any byte to LY (0xFF44) leaves LY, the dot counter, STAT
\* and every other PPU register as they were.
C14_LyReadOnly ==
    [][(hist'.last = "ppu_write" /\ hist'.wrote.addr = PortLY)
         => (ppu' = ppu /\ emu' = emu)]_vars

\* C14 witness: 0x4D was written to LY in the middle of scanline 100.
C14_Witness ==
    /\ hist.last = "ppu_write"
    /\ hist.wrote = [addr |-> PortLY, value |-> 77]
    /\ ppu.ly = 100
    /\ ppu.dot = 200

\* C17: after a write of v to the DMA register no tick of the copy fails, and
\* once the 160 ticks of the copy are over OAM[i] is the byte the CPU reads at
\* (v << 8) + i, for every i in 0..159.
C17_DmaCopies ==
    /\ panic = "none"
    /\ (ppu.dma # 0 /\ ppu.dma_counter = 0)
          => \A i \in 0..(OamLen - 1) :
                Cell(ppu.objs, i, 255) = CpuViewRead(Machine, ppu.dma * 256 + i).value

\* the bank number the CPU reads at 0x4000 (every bank is filled with its
\* number)
MappedBank == CpuViewRead(Machine, 16384)

\* C15: on an MBC-1 cartridge of at least 2 banks, whatever was written
\* before, a write of 0x00 to 0x2000 maps a bank whose low five bits are 1 at
\* 0x4000-0x7FFF (bank 1 on a 4-bank cartridge).
C15_ZeroSelectsOne ==
    (hist.last = "write" /\ hist.wrote = [addr |-> 8192, value |-> 0])
        => (/\ mbc.rom_bank % 32 = 1
            /\ MappedBank = Ok(mbc.rom_bank)
            /\ (cart.banks = 4 => MappedBank = Ok(1)))

\* C15 witness: 0xAA, then 0x00 were written to 0x2000 of the 4-bank
\* cartridge.
C15_Witness ==
    /\ cart.banks = 4
    /\ hist.last = "write"
    /\ hist.prev = [addr |-> 8192, value |-> 170]
    /\ hist.wrote = [addr |-> 8192, value |-> 0]
    /\ MappedBank = Ok(1)

\* C16: a write of 0x20 to 0x2000 (the first register write) selects bank
\* 0x21 on a cartridge of 128 banks, and 0x21 masked to the bank count on a
\* smaller one.
C16_Bank20Selects21 ==
    (hist.last = "write" /\ hist.ops = 1
       /\ hist.wrote = [addr |-> 8192, value |-> 32])
        => (/\ mbc.rom_bank = BitAnd(33, cart.banks - 1)
            /\ MappedBank = Ok(BitAnd(33, cart.banks - 1)))

\* C18: after the CPU wrote 0x10 to P1 and the "A" button was pressed, a CPU
\* read of P1 returns 0x1E.
C18_JoypadA ==
    (/\ hist.wrote = [addr |-> PortP1, value |-> 16]
     /\ hist.pressed
     /\ hist.last = "read"
     /\ hist.read.addr = PortP1)
        => hist.read.value = 30

\* ---------------------------------------------------------------------------
\* C19: for all 8-bit a and b, ADD A,B with A = a and B = b leaves
\* A = (a + b) mod 256, Carry = (a + b > 0xFF),
\* HalfCarry = ((a & 0xF) + (b & 0xF) > 0xF), Zero = (result = 0) and
\* Negative clear; SUB B leaves A = (a - b) mod 256, Carry = (a < b),
\* HalfCarry = ((a & 0xF) < (b & 0xF)), Zero = (result = 0) and Negative set;
\* CP B leaves A unchanged and F as SUB B leaves it.
FlagSet(flag) == BitAnd(cpu.f, flag) # 0

FlagByte(zero, negative, half, carry) ==
    (IF zero THEN 128 ELSE 0) + (IF negative THEN 64 ELSE 0)
        + (IF half THEN 32 ELSE 0) + (IF carry THEN 16 ELSE 0)

SubFlags(a, b) ==
    FlagByte((a - b + 256) % 256 = 0, TRUE, (a % 16) < (b % 16), a < b)

C19_FlagAlgebra ==
    LET a == hist.pre.a
        b == cpu.b
    IN  /\ hist.last = "add" =>
            /\ cpu.a = (a + b) % 256
            /\ FlagSet(FlagCarry) = (a + b > 255)
            /\ FlagSet(FlagHalfCarry) = ((a % 16) + (b % 16) > 15)
            /\ FlagSet(FlagZero) = (cpu.a = 0)
            /\ ~FlagSet(FlagNegative)
            /\ cpu.f % 16 = 0
        /\ hist.last = "sub" =>
            /\ cpu.a = (a - b + 256) % 256
            /\ FlagSet(FlagCarry) = (a < b)
            /\ FlagSet(FlagHalfCarry) = ((a % 16) < (b % 16))
            /\ FlagSet(FlagZero) = (cpu.a = 0)
            /\ FlagSet(FlagNegative)
            /\ cpu.f = SubFlags(a, b)
        /\ hist.last = "cp" =>
            /\ cpu.a = a
            /\ cpu.f = SubFlags(a, b)

\* ADD A,B of 0x8F + 0x71 with every flag set beforehand: the result is 0 with
\* Zero, HalfCarry and Carry set and Negative cleared.
C19_Witness ==
    /\ hist.last = "add"
    /\ hist.pre.a = 143 /\ hist.pre.f = 240
    /\ cpu.b = 113
    /\ cpu.a = 0 /\ cpu.f = 176

\* ---------------------------------------------------------------------------
\* C20: the low nibble of F is zero in every state the arithmetic and stack
\* handlers reach; POP AF loads AF with the word v at SP masked by 0xFFF0;
\* and PUSH AF followed at once by POP AF leaves A, F and SP as they were
\* before the PUSH, provided the two bytes PUSH AF wrote are in memory that
\* reads back what was written (work RAM, its echo, high RAM or IE).
LowNibbleClear == cpu.f % 16 = 0

WordAt(addr) ==
    CpuViewRead(Machine, addr).value
        + 256 * CpuViewRead(Machine, (addr + 1) % 65536).value

Af == cpu.a * 256 + cpu.f

StackTop == WordAt(cpu.sp)

PopLoads ==
    hist'.last = "pop_AF" =>
        /\ Af' = BitAnd(StackTop, 65520)
        /\ cpu'.sp = (cpu.sp + 2) % 65536

RoundTrip ==
    (hist.last = "push_AF" /\ hist'.last = "pop_AF") =>
        /\ cpu'.a = hist.pre.a
        /\ cpu'.f = hist.pre.f
        /\ cpu'.sp = hist.pre.sp

ReadsBack(addr) == addr \in 49152..65023 \/ addr \in 65408..65535

RoundTripInRam ==
    (ReadsBack(cpu.sp) /\ ReadsBack((cpu.sp + 1) % 65536)) => RoundTrip

C20_AfClean ==
    LowNibbleClear /\ [][LowNibbleClear' /\ PopLoads /\ RoundTripInRam]_vars

\* PUSH AF of 0xFFB0 at SP = 0xD000 followed by POP AF: both are back.
C20_Witness ==
    /\ hist.last = "pop_AF"
    /\ hist.ops = 2
    /\ hist.pre = [a |-> 255, f |-> 176, sp |-> 53246]
    /\ cpu.a = 255 /\ cpu.f = 176 /\ cpu.sp = 53248

\* C20 as stated, for a stack anywhere: PUSH AF followed at once by POP AF
\* leaves A, F and SP as they were before the PUSH.
C20_AnyStack == [][RoundTrip]_vars

\* ---------------------------------------------------------------------------
\* C21: for BCD bytes x and y (decimal 0..99), ADD A,B with A = x and B = y
\* followed by DAA leaves A holding the BCD encoding of (dec(x) + dec(y)) mod
\* 100 and Carry set exactly when dec(x) + dec(y) >= 100.
C21_DaaAfterAdd ==
    LET x == hist.pre.a
        y == cpu.b
    IN  (hist.last = "add_daa" /\ x \in Bcd /\ y \in Bcd) =>
            /\ cpu.a = Enc((Dec(x) + Dec(y)) % 100)
            /\ FlagSet(FlagCarry) = (Dec(x) + Dec(y) >= 100)

\* 55 + 45: ADD leaves 0x9A with no carry, DAA turns it into 0x00 with Carry.
C21_Witness ==
    /\ hist.last = "add_daa"
    /\ hist.pre.a = 85 /\ cpu.b = 69
    /\ cpu.a = 0 /\ FlagSet(FlagCarry) /\ FlagSet(FlagZero)

\* ---------------------------------------------------------------------------
\* C22: JR cc,e8 returns 8 cycles when the condition is not met and 12 when
\* it is; CALL nn and a taken CALL cc,nn return 24 and a CALL cc,nn not taken
\* returns 12; when not taken, PC is past the operand bytes and SP and memory
\* are unchanged.
Opcode == CpuViewRead(Machine, cpu.pc).value

ConditionOf(op) ==
    CASE op \in {32, 196} -> "nz"
      [] op \in {40, 204} -> "z"
      [] op \in {48, 212} -> "nc"
      [] op \in {56, 220} -> "c"

Taken(op) ==
    CASE ConditionOf(op) = "nz" -> cpu.f < 128
      [] ConditionOf(op) = "z"  -> cpu.f >= 128
      [] ConditionOf(op) = "nc" -> (cpu.f \div 16) % 2 = 0
      [] ConditionOf(op) = "c"  -> (cpu.f \div 16) % 2 = 1

StepCycles == hist'.cycles - hist.cycles

MemoryKept ==
    /\ wram' = wram /\ hram' = hram /\ sram' = sram
    /\ emu' = emu /\ ppu' = ppu /\ mbc' = mbc

FellThrough(len) ==
    /\ cpu'.pc = (cpu.pc + len) % 65536
    /\ cpu'.sp = cpu.sp
    /\ MemoryKept

BranchTiming ==
    hist'.last = "step" =>
        /\ (Opcode \in JrOps /\ Taken(Opcode)) => StepCycles = 12
        /\ (Opcode \in JrOps /\ ~Taken(Opcode)) =>
               StepCycles = 8 /\ FellThrough(2)
        /\ Opcode = 205 => StepCycles = 24
        /\ (Opcode \in CallOps /\ Taken(Opcode)) => StepCycles = 24
        /\ (Opcode \in CallOps /\ ~Taken(Opcode)) =>
               StepCycles = 12 /\ FellThrough(3)

C22_BranchTiming == [][BranchTiming]_vars

\* JR Z,+24 at 0x0000 with Zero clear: 8 cycles, PC = 2.
C22_Witness ==
    /\ hist.last = "step" /\ hist.ops = 1
    /\ BlobAt(bios_data, 0) = 40 /\ BlobAt(bios_data, 1) = 24
    /\ hist.pre.f = 16
    /\ hist.cycles = 8
    /\ cpu.pc = 2

\* ---------------------------------------------------------------------------
\* C23: each of the opcodes 0xD3, 0xDB, 0xDD, 0xE3, 0xE4, 0xEB, 0xEC, 0xED,
\* 0xF4, 0xFC, 0xFD returns 4 cycles, advances PC by exactly 1 and leaves
\* every other register, the flags, SP, IME, the halt and stop state and
\* memory unchanged.
IllegalStall ==
    (hist'.last = "step" /\ Opcode \in IllegalOps) =>
        /\ StepCycles = 4
        /\ cpu' = [cpu EXCEPT !.pc = (cpu.pc + 1) % 65536]
        /\ MemoryKept
        /\ panic' = "none"

C23_IllegalStall == [][IllegalStall]_vars

\* 0xED at 0x0000 has executed: 4 cycles, PC = 1.
C23_Witness ==
    /\ hist.last = "step" /\ hist.ops = 1
    /\ BlobAt(bios_data, 0) = 237
    /\ hist.cycles = 4
    /\ cpu.pc = 1 /\ cpu.sp = 53248 /\ cpu.f = 240 /\ cpu.ime

\* ---------------------------------------------------------------------------
\* C24: Emu::tick runs one CPU step, then the PPU for the cycles the step
\* returned, then the timers; so with the LCD on and no DMA the PPU position
\* LY * 456 + dot, modulo the frame of 154 lines, equals the cycles that
\* Emu::tick returned since the LCD was switched on.
FrameDots == 154 * DotsPerLine

PpuPosition == ppu.ly * DotsPerLine + ppu.dot

C24_CycleConserving ==
    (Test(ppu.lcdc, 128) /\ ppu.dma_counter = 0) =>
        PpuPosition % FrameDots = hist.lcd_dots % FrameDots

\* ---------------------------------------------------------------------------
\* C25: without writes to DIV, after ticks that returned n cycles in all since
\* construction, DIV reads floor(n / 256) mod 256.
C25_DivEvery256 == emu.div = (hist.cycles \div 256) % 256

\* ---------------------------------------------------------------------------
\* C26: with TAC bit 2 set, TIMA has been incremented once per 1024, 16, 64 or
\* 256 cycles (TAC bits 0-1 = 0, 1, 2, 3) of the cycles run with the timer on;
\* the increment from 0xFF reloads TIMA from TMA and sets IF bit 2, and IF bit
\* 2 is not set before such an overflow; with TAC bit 2 clear TIMA keeps the
\* value written and IF bit 2 stays clear.
ClaimedPeriod(rate) ==
    CASE rate = 0 -> 1024
      [] rate = 1 -> 16
      [] rate = 2 -> 64
      [] rate = 3 -> 256

\* TIMA after k increments from `start`, reloading from `tma` on overflow
Counted(start, tma, k) ==
    IF k < 256 - start THEN start + k
    ELSE tma + ((k - (256 - start)) % (256 - tma))

TimaWritten == BlobAt(bios_data, 5)

Increments == hist.timed \div ClaimedPeriod(emu.tac % 4)

C26_TimaRate ==
    /\ Test(emu.tac, 4) =>
          /\ emu.tima = Counted(TimaWritten, emu.tma, Increments)
          /\ Test(emu.iflags, 4) = (Increments >= 256 - TimaWritten)
    /\ (~Test(emu.tac, 4) /\ cpu.pc >= 8) =>
          /\ emu.tima = TimaWritten
          /\ ~Test(emu.iflags, 4)
          /\ hist.timed = 0

\* The 64-cycle rate: TIMA ran 0xFE, 0xFF, overflowed to TMA = 0xFA and went
\* on to 0xFB, with IF bit 2 set.
C26_Witness ==
    /\ emu.tac = 6
    /\ Increments = 3
    /\ emu.tima = 251 /\ emu.tma = 250
    /\ Test(emu.iflags, 4)

\* ---------------------------------------------------------------------------
\* C27: Emu::reset leaves PC = 0, IME, halted and stopped false, the PPU dot
\* counter and LY at 0, vblanked false, IF = IE = 0 and DIV, TIMA, TMA, TAC at
\* 0; and a reset that follows a reset changes nothing (the VRAM bytes that
\* every reset draws afresh aside).
ResetPostState ==
    hist.last = "reset" =>
        /\ cpu.pc = 0 /\ ~cpu.ime /\ ~cpu.halted /\ ~cpu.stopped
        /\ ppu.dot = 0 /\ ppu.ly = 0
        /\ ~emu.vblanked
        /\ emu.iflags = 0 /\ emu.ie = 0
        /\ emu.div = 0 /\ emu.tima = 0 /\ emu.tma = 0 /\ emu.tac = 0

ResetIdempotent ==
    (hist.last = "reset" /\ hist'.last = "reset") =>
        /\ cpu' = cpu /\ emu' = emu /\ mbc' = mbc
        /\ wram' = wram /\ hram' = hram /\ sram' = sram
        /\ ppu' = [ppu EXCEPT !.vram_fill = ppu'.vram_fill]
        /\ panic' = panic

ZeroToOne(lo) == IF lo = 0 THEN 1 ELSE lo

BankAfter(bank, v) ==
    BitAnd(BitOr(BitAnd(bank, 224), ZeroToOne(v % 32)), cart.banks - 1)

RomBankLow ==
    (hist'.last = "write" /\ hist'.wrote.addr \in 8192..16383) =>
        /\ mbc'.rom_bank = BankAfter(mbc.rom_bank, hist'.wrote.value)
        /\ MappedBank' = Ok(BankAfter(mbc.rom_bank, hist'.wrote.value))

C28_RomBankLow == [][RomBankLow]_vars

\* ---------------------------------------------------------------------------
\* C29: before any write to 0x2000-0x3FFF, reads of 0x4000-0x7FFF of an MBC-1
\* cartridge return bytes of ROM bank 1.
NoLowWrite == hist.ops = 0

C29_InitialBankOne == NoLowWrite => MappedBank = Ok(1)

\* ---------------------------------------------------------------------------
\* C30: a read of 0x0000-0x3FFF of an MBC-1 cartridge returns ROM bank 0 in
\* banking mode 0, and ROM bank (high2 << 5) in banking mode 1 on a cartridge
\* of at least 1 MiB (64 banks), high2 being the two bits last written to
\* 0x4000-0x5FFF.
LowAreaBank ==
    IF mbc.bank_mode = 1 /\ cart.banks >= 64 THEN hist.high2 * 32 ELSE 0

C30_LowAreaBank ==
    (hist.last = "read" /\ hist.read.addr = 16383) =>
        hist.read.value = LowAreaBank

\* ---------------------------------------------------------------------------
\* C31: for MBC-0 and MBC-1, with SRAM present a byte written into
\* 0xA000-0xBFFF is what a read of that address at the same SRAM bank
\* returns; without SRAM reads of the window return 0xFF and writes, the
\* SRAM-bank select included, are discarded and nothing fails.
InSramWindow(addr) == addr \in 40960..49151

SramReadsBack ==
    (/\ cart.sram_banks > 0
     /\ hist.last = "write"
     /\ InSramWindow(hist.wrote.addr))
        => CpuViewRead(Machine, hist.wrote.addr) = Ok(hist.wrote.value)

SramAbsent ==
    cart.sram_banks = 0 =>
        /\ panic = "none"
        /\ \A addr \in SramReads : CpuViewRead(Machine, addr) = Ok(255)
        /\ sram = Empty

C31_SramWindow == SramReadsBack /\ SramAbsent

\* ---- C32 ----
\* the STAT mode bits the schedule gives to dot `dot` of line `ly`
ScheduledMode(ly, dot) ==
    IF ly >= VBlankLine THEN 1
    ELSE IF dot < 80 THEN 2
    ELSE IF dot < 370 THEN 3
    ELSE 0

\* a PPU tick with the LCD on and no DMA pending
LcdTick ==
    /\ hist'.last \in {"ppu_tick", "vblank"}
    /\ Test(ppu.lcdc, 128)
    /\ ppu.dma_counter = 0
    /\ panic = "none"

ModeSchedule ==
    (LcdTick /\ ppu.ly < LyWrap - 1)
        => (ppu'.stat % 4 = ScheduledMode(ppu.ly, ppu.dot))

\* C32: with the LCD on, the tick of every dot of lines 0..153 leaves the STAT
\* mode bits at the scheduled mode: 2 for dots 0..79, 3 for dots 80..369 and 0
\* for dots 370..455 of lines 0..143, and 1 at every dot of lines 144..153.
C32_ModeSchedule == [][ModeSchedule]_vars

\* ---- C33 ----
LycLatched ==
    (LcdTick /\ ppu.dot = 0)
        => /\ Test(ppu'.stat, 4) <=> (ppu.ly = ppu.lyc)
           /\ (ppu.ly = ppu.lyc /\ Test(ppu.stat, 64)) => Test(emu'.iflags, 2)

\* C33: after the tick of dot 0 of a scanline STAT bit 2 is set exactly when
\* LY equals LYC (so it is cleared on a line where they differ), and IF bit 1
\* is raised by that tick when they match and STAT bit 6 is set.
C33_LycLatch == [][LycLatched]_vars

\* ---- C34 ----
LcdOffTick ==
    /\ hist'.last \in {"ppu_tick", "vblank"}
    /\ ~Test(ppu.lcdc, 128)
    /\ ppu.dma_counter = 0
    /\ panic = "none"

LcdOffHolds ==
    LcdOffTick
        => /\ ppu'.ly = 0
           /\ ppu'.dot = 0
           /\ ppu'.stat % 4 = 0
           /\ hist'.drew = -1
           /\ emu'.iflags = emu.iflags
           /\ hist'.last # "vblank"

AnyPpuTick == hist'.last \in {"ppu_tick", "vblank"} /\ panic = "none"

PpuWritePrivileges ==
    AnyPpuTick
        => /\ wram' = wram /\ hram' = hram /\ sram' = sram
           /\ mbc' = mbc /\ cpu' = cpu /\ bios_data' = bios_data
           /\ emu' = [emu EXCEPT !.iflags = emu'.iflags]
           /\ BitAnd(emu'.iflags, emu.iflags) = emu.iflags
           /\ BitAnd(emu'.iflags, 252) = BitAnd(emu.iflags, 252)

\* C35: a PPU tick, in any mode, changes nothing but the PPU's own state, the
\* framebuffer and IF: WRAM, HRAM, IE, the timers, the BIOS and SVBK latches,
\* the MBC and the CPU registers are left as they were; in IF it only sets
\* bits 0 and 1 and never clears a bit.
C35_PpuWritePrivileges == [][PpuWritePrivileges]_vars

\* the tick of dot 0 of a matching line raised IF bit 1 next to the timer
\* bit the CPU had stored
C35_Witness ==
    /\ hist.last = "ppu_tick"
    /\ Test(ppu.lcdc, 128)
    /\ ppu.dot = 1
    /\ ppu.ly = ppu.lyc
    /\ Test(ppu.stat, 64)
    /\ emu.iflags = 6

\* ---- C36 ----
\* the second byte of the CB-prefixed instruction at PC
CbOpcode == CpuViewRead(Machine, (cpu.pc + 1) % 65536).value

\* the SM83 timing of a CB-prefixed opcode: 8 on a register, 16 on (HL),
\* 12 for BIT b,(HL)
CbTiming(op) ==
    IF op % 8 # 6 THEN 8
    ELSE IF op \in 64..127 THEN 12
    ELSE 16

StepTiming ==
    hist'.last = "step" =>
        /\ StepCycles > 0
        /\ StepCycles % 4 = 0
        /\ Opcode = 0 => StepCycles = 4
        /\ Opcode = 203 => StepCycles = CbTiming(CbOpcode)

\* C36: every CPU step returns a positive multiple of 4, the SM83 timing of
\* the instruction; in the CB group 8 cycles on a register operand, 16 on
\* (HL) for RES and SET (and the rotates, shifts and SWAP), 12 for BIT b,(HL).
C36_StepTiming == [][StepTiming]_vars

\* ---- C37 ----
\* the number of OAM entries before entry `i` that are on line LY
SpriteRank(p, i) == Cardinality({k \in 0..(i - 1) : Covers(p, k)})

\* the PPU with every entry on line LY after the tenth moved off the screen
TenSprites(p) ==
    [p EXCEPT !.objs =
        [a \in DOMAIN p.objs |->
            IF a % 4 = 0 /\ Covers(p, a \div 4) /\ SpriteRank(p, a \div 4) >= 10
            THEN 0 ELSE p.objs[a]]]

\* C37: the line draw_line produces is the line the first ten OAM entries on
\* that scanline (in OAM order, chosen by Y alone) produce: the eleventh and
\* later entries on the line change no pixel.
C37_SpriteLimit ==
    hist.drew >= 0 => hist.line = DrawLine(TenSprites(ppu), hist.line)

\* ---- C38 ----
BanksInRange ==
    (cart.kind = "mbc1" /\ cart.banks >= 2 /\ cart.sram_banks >= 1)
        => /\ mbc.rom_bank < cart.banks
           /\ mbc.sram_bank < cart.sram_banks
           /\ panic = "none"
           /\ \A addr \in BankReads : CpuViewRead(Machine, addr).panic = "none"

\* C38: on an MBC-1 image of N ROM banks and M SRAM banks (powers of two,
\* N >= 2, M >= 1), whatever bytes are written to 0x0000..0x7FFF, the ROM bank
\* stays below N and the SRAM bank below M, and no read of 0x0000..0x7FFF and
\* no access to 0xA000..0xBFFF panics.
C38_BanksInRange == BanksInRange

\* 8 ROM banks, 4 SRAM banks: 0xFF stored to 0x2000 selects bank 0x15 & 7 = 5,
\* then mode 1 and SRAM bank 3
C38_Witness ==
    /\ cart.banks = 8 /\ cart.sram_banks = 4
    /\ hist.last = "write"
    /\ hist.wrote = [addr |-> 16384, value |-> 3]
    /\ mbc.rom_bank = 5
    /\ mbc.sram_bank = 3
    /\ mbc.bank_mode = 1

\* ---- C39 ----
\* both bytes of a return address pushed at `sp` land in memory that reads
\* back what is stored
StackInRam(sp) == ReadsBack(Dec16(sp)) /\ ReadsBack(Dec16(Dec16(sp)))

CallPushes ==
    (hist'.last = "step" /\ Opcode = 205) =>
        /\ cpu'.sp = Dec16(Dec16(cpu.sp))
        /\ cpu'.pc = WordAt((cpu.pc + 1) % 65536)
        /\ StackInRam(cpu.sp) => StackTop' = (cpu.pc + 3) % 65536

RetReturns ==
    (hist'.last = "step" /\ Opcode = 201 /\ hist.last = "step" /\ hist.ops = 1) =>
        /\ cpu'.sp = hist.pre.sp
        /\ StackInRam(hist.pre.sp) => cpu'.pc = 3

\* C39: CALL nn stores the address of the byte after its three bytes at
\* SP-1 (high) and SP-2 (low), little-endian at the new SP = SP-2, and jumps
\* to nn; the RET that follows loads PC from there and leaves SP as it was
\* before the CALL; SP wraps modulo 2^16.  The stored address is asked for
\* when both stack bytes lie in memory that reads back.
C39_CallRet == [][CallPushes /\ RetReturns]_vars

\* CALL 0x0010 at 0x0000 with SP = 0 and the RET at 0x0010 have run: the
\* return address went through 0xFFFF and 0xFFFE, PC = 3 and SP = 0 again
C39_Witness ==
    /\ hist.last = "step" /\ hist.ops = 2
    /\ BlobAt(bios_data, 0) = 205 /\ BlobAt(bios_data, 1) = 16
    /\ cpu.pc = 3
    /\ cpu.sp = 0
    /\ hist.pre.sp = 65534
    /\ WordAt(65534) = 3
    /\ hist.cycles = 40

\* ---- C40 ----
HaltedTick ==
    (TickStep /\ cpu.halted /\ panic = "none") =>
        /\ StepCycles = 4
        /\ cpu' = cpu
        /\ wram' = wram /\ hram' = hram /\ sram' = sram /\ mbc' = mbc
        /\ panic' = "none"
        /\ Test(ppu.lcdc, 128) =>
               PpuPosition' = (PpuPosition + 4) % (LyWrap * DotsPerLine)
        /\ emu'.div_counter = (emu.div_counter + 4) % DivPeriod
        /\ Test(emu.tac, 4) =>
               emu'.tima_counter = (emu.tima_counter + 4) % TimaPeriod(emu.tac)
        /\ BitAnd(emu'.iflags, emu.iflags) = emu.iflags

\* C40: while the CPU is halted every Emu::tick returns 4 cycles and leaves
\* PC, SP, the registers, IME and memory as they were, yet moves the PPU on
\* by 4 dots and the DIV and TIMA prescalers by 4 and clears no bit of IF: the
\* VBlank, STAT and timer bits are raised in IF and vblanked() fires while
\* the CPU stays halted.
C40_HaltedTick == [][HaltedTick]_vars

\* halted since before the first HBlank: the timer, STAT and VBlank bits
\* have all been raised in IF and the host has seen vblanked() return true
C40_Witness ==
    /\ cpu.halted
    /\ hist.last = "query" /\ hist.query = "true"
    /\ emu.iflags = 7
    /\ ppu.ly = VBlankLine
    /\ cpu.pc = 17

====
